---- MODULE Spec2Model ----
(***************************************************************************)
(* A model of the HTTP/1.1 serving core of modern-c-web-library:           *)
(* the incremental request parser, the response serializer, the reactor    *)
(* registration table and the per-connection state machine of              *)
(* src/src/http_server.c and src/src/event_loop.c.                         *)
(*                                                                         *)
(* Bytes are one-character strings and byte strings are sequences of them. *)
(* The size limits of http_server.c are scaled down (see the definitions   *)
(* below) so that the limit cases are within reach of the model checker;   *)
(* every comparison against a limit is the comparison the source makes.    *)
(* malloc/realloc/strdup are taken to succeed.                             *)
(***************************************************************************)
EXTENDS Integers, Sequences, FiniteSets, TLC

(***************************************************************************)
(* Limits of http_server.c, scaled down.                                   *)
(*   READ_BUFFER_SIZE 8192, MAX_REQUEST_LINE_LEN 4096,                     *)
(*   MAX_HEADER_LINE_LEN 8192, MAX_HEADER_COUNT 100,                       *)
(*   MAX_HEADER_BYTES 16384, MAX_BODY_BYTES 1 MiB in the source.           *)
(***************************************************************************)
READ_BUFFER_SIZE == 64
MAX_REQUEST_LINE_LEN == 32
MAX_HEADER_LINE_LEN == 64
MAX_HEADER_COUNT == 4
MAX_HEADER_BYTES == 128
MAX_BODY_BYTES == 16
MAX_REQUEST_BUFFER == MAX_BODY_BYTES + MAX_HEADER_BYTES

NULL == <<"NULL">>

PARSER_INCOMPLETE == "PARSER_INCOMPLETE"
PARSER_COMPLETE == "PARSER_COMPLETE"
PARSER_ERROR == "PARSER_ERROR"

Min(S) == CHOOSE x \in S : \A y \in S : x <= y

\* a is a leading part of b
IsPrefix(a, b) == Len(a) <= Len(b) /\ a = SubSeq(b, 1, Len(a))

\* F applied to the value of v, which is computed once
With(v, F(_)) == CHOOSE r \in {F(x) : x \in {v}} : TRUE

(***************************************************************************)
(* <ctype.h>, <string.h>, <strings.h>, <stdlib.h> as the parser uses them  *)
(***************************************************************************)
UpperCase == <<"A","B","C","D","E","F","G","H","I","J","K","L","M",
               "N","O","P","Q","R","S","T","U","V","W","X","Y","Z">>
LowerCase == <<"a","b","c","d","e","f","g","h","i","j","k","l","m",
               "n","o","p","q","r","s","t","u","v","w","x","y","z">>
Digits == <<"0","1","2","3","4","5","6","7","8","9">>

tolower(c) ==
    IF \E i \in 1..26 : UpperCase[i] = c
    THEN LowerCase[CHOOSE i \in 1..26 : UpperCase[i] = c]
    ELSE c

isspace(c) == c \in {" ", "\t", "\n", "\r", "\f"}

lowercase_dup(src) == [i \in 1..Len(src) |-> tolower(src[i])]

\* strcasecmp(a, b): 0 when equal ignoring case, nonzero otherwise
strcasecmp(a, b) == IF lowercase_dup(a) = lowercase_dup(b) THEN 0 ELSE 1

\* strstr(h, n) != NULL
strstr(h, n) == \E i \in 0..(Len(h) - Len(n)) : SubSeq(h, i + 1, i + Len(n)) = n

\* strcasestr(h, n) != NULL
strcasestr(h, n) == strstr(lowercase_dup(h), lowercase_dup(n))

\* strchr/memchr from position `from` (1-based); 0 when the byte is absent
strchr(s, from, c) ==
    LET hits == {i \in from..Len(s) : s[i] = c}
    IN IF hits = {} THEN 0 ELSE Min(hits)

\* value of a digit in the given base, -1 when it is no digit of that base
DigitValue(c, base) ==
    With(tolower(c), LAMBDA lc :
        IF \E i \in 1..10 : Digits[i] = lc
        THEN (CHOOSE i \in 1..10 : Digits[i] = lc) - 1
        ELSE IF base = 16 /\ \E i \in 1..6 : LowerCase[i] = lc
        THEN (CHOOSE i \in 1..6 : LowerCase[i] = lc) + 9
        ELSE -1)

\* number of leading bytes of s, from position `from`, that are digits of base
RECURSIVE DigitRun(_, _, _)
DigitRun(s, from, base) ==
    IF from > Len(s) \/ DigitValue(s[from], base) < 0 THEN 0
    ELSE 1 + DigitRun(s, from + 1, base)

RECURSIVE DigitsValue(_, _, _, _)
DigitsValue(s, from, n, base) ==
    IF n = 0 THEN 0
    ELSE DigitsValue(s, from, n - 1, base) * base + DigitValue(s[from + n - 1], base)

RECURSIVE SkipSpace(_, _)
SkipSpace(s, from) ==
    IF from <= Len(s) /\ isspace(s[from]) THEN SkipSpace(s, from + 1) ELSE from

(***************************************************************************)
(* strtoull(s, &endptr, 10) and strtoul(s, &endptr, 16).                   *)
(* Result: val, and endp = number of bytes converted (0: no conversion).   *)
(* A '-' sign negates modulo 2^64; every such nonzero value is far above   *)
(* MAX_BODY_BYTES and is reported as ULONG_WRAPPED.                        *)
(***************************************************************************)
ULONG_WRAPPED == MAX_REQUEST_BUFFER * 4

strtoul(s, base) ==
    With(SkipSpace(s, 1), LAMBDA p0 :
    With(p0 <= Len(s) /\ s[p0] \in {"+", "-"}, LAMBDA signed :
    With(IF signed THEN p0 + 1 ELSE p0, LAMBDA p1 :
    With(IF /\ base = 16
            /\ p1 + 2 <= Len(s)
            /\ s[p1] = "0"
            /\ s[p1 + 1] \in {"x", "X"}
            /\ DigitValue(s[p1 + 2], 16) >= 0
         THEN p1 + 2 ELSE p1, LAMBDA p2 :
    With(DigitRun(s, p2, base), LAMBDA n :
    With(DigitsValue(s, p2, n, base), LAMBDA v :
        IF n = 0 THEN [val |-> 0, endp |-> 0]
        ELSE [val |-> IF signed /\ s[p0] = "-" /\ v > 0 THEN ULONG_WRAPPED ELSE v,
              endp |-> p2 + n - 1]))))))

(***************************************************************************)
(* Header lists                                                            *)
(***************************************************************************)
header_list_find(head, name_lower) ==
    LET hits == {i \in 1..Len(head) : head[i].name = name_lower}
    IN IF hits = {} THEN 0 ELSE Min(hits)

header_list_add(head, name, raw_name, value, replace_existing) ==
    With(lowercase_dup(name), LAMBDA lower :
    With(header_list_find(head, lower), LAMBDA existing :
        IF existing # 0 /\ replace_existing
        THEN [head EXCEPT ![existing].value = value,
                          ![existing].raw_name = IF raw_name # NULL THEN raw_name ELSE @]
        ELSE Append(head, [name |-> lower,
                           raw_name |-> IF raw_name # NULL THEN raw_name ELSE name,
                           value |-> value])))

(***************************************************************************)
(* Requests and the parser                                                 *)
(***************************************************************************)
\* calloc'd http_request_t: method 0 is HTTP_GET
http_request_create ==
    [method |-> "HTTP_GET", path |-> NULL, query_string |-> NULL,
     body |-> <<>>, body_length |-> 0, headers |-> <<>>]

http_parser_init(req) ==
    [state |-> "REQUEST_LINE", req |-> req, buffer |-> <<>>,
     buffer_cap |-> READ_BUFFER_SIZE, total_bytes |-> 0, header_count |-> 0,
     content_length |-> 0, body_received |-> 0, body_capacity |-> 0,
     chunked |-> FALSE, current_chunk_size |-> 0, current_chunk_received |-> 0,
     keep_alive |-> FALSE, seen_host |-> FALSE,
     error_status |-> 0, error_message |-> NULL]

parser_set_error(parser, status, message) ==
    [parser EXCEPT !.state = "ERROR", !.error_status = status, !.error_message = message]

\* what the parse_* functions hand back: the parser after the call and the int returned
Ret(parser, rc) == [p |-> parser, rc |-> rc]

RECURSIVE GrowCap(_, _, _)
GrowCap(cap, required, limit) ==
    IF cap >= required THEN cap
    ELSE IF cap * 2 > limit THEN limit
    ELSE GrowCap(cap * 2, required, limit)

ensure_buffer_capacity(parser, additional) ==
    LET required == Len(parser.buffer) + additional
    IN IF required > MAX_REQUEST_BUFFER
       THEN Ret(parser_set_error(parser, 413,
                <<"P","a","y","l","o","a","d"," ","T","o","o"," ","L","a","r","g","e">>), -1)
       ELSE IF required <= parser.buffer_cap THEN Ret(parser, 0)
       ELSE Ret([parser EXCEPT !.buffer_cap =
                    GrowCap(IF parser.buffer_cap # 0 THEN parser.buffer_cap ELSE READ_BUFFER_SIZE,
                            required, MAX_REQUEST_BUFFER)], 0)

\* index (from 0) of the first CR LF pair, -1 when there is none
find_crlf(buf) ==
    LET hits == {i \in 1..(Len(buf) - 1) : buf[i] = "\r" /\ buf[i + 1] = "\n"}
    IN IF hits = {} THEN -1 ELSE Min(hits) - 1

parser_consume(parser, count) ==
    IF count = 0 THEN parser
    ELSE IF count >= Len(parser.buffer) THEN [parser EXCEPT !.buffer = <<>>]
    ELSE [parser EXCEPT !.buffer = SubSeq(@, count + 1, Len(@))]

\* the method table of assign_http_method: NULL when the name is not in it
assign_http_method(method) ==
    CASE method = <<"G","E","T">> -> "HTTP_GET"
      [] method = <<"P","O","S","T">> -> "HTTP_POST"
      [] method = <<"P","U","T">> -> "HTTP_PUT"
      [] method = <<"D","E","L","E","T","E">> -> "HTTP_DELETE"
      [] method = <<"P","A","T","C","H">> -> "HTTP_PATCH"
      [] method = <<"H","E","A","D">> -> "HTTP_HEAD"
      [] method = <<"O","P","T","I","O","N","S">> -> "HTTP_OPTIONS"
      [] OTHER -> "NONE"

RECURSIVE SkipBlank(_, _)
SkipBlank(s, from) ==
    IF from <= Len(s) /\ s[from] = " " THEN SkipBlank(s, from + 1) ELSE from

parse_request_line(parser) ==
    With(find_crlf(parser.buffer), LAMBDA crlf_index :
    IF crlf_index < 0 THEN Ret(parser, 0)
    ELSE IF crlf_index > MAX_REQUEST_LINE_LEN
    THEN Ret(parser_set_error(parser, 414,
             <<"R","e","q","u","e","s","t","-","U","R","I"," ","T","o","o"," ","L","o","n","g">>), -1)
    ELSE
    With(SubSeq(parser.buffer, 1, crlf_index), LAMBDA line :
    With(strchr(line, 1, " "), LAMBDA sp1 :
    With(SkipBlank(line, sp1 + 1), LAMBDA target_from :
    With(IF sp1 = 0 THEN 0 ELSE strchr(line, target_from, " "), LAMBDA sp2 :
    IF sp1 = 0 \/ sp2 = 0
    THEN Ret(parser_set_error(parser, 400,
             <<"M","a","l","f","o","r","m","e","d"," ","r","e","q","u","e","s","t"," ","l","i","n","e">>), -1)
    ELSE
    With(assign_http_method(SubSeq(line, 1, sp1 - 1)), LAMBDA m :
    With(SubSeq(line, target_from, sp2 - 1), LAMBDA target :
    With(SubSeq(line, SkipBlank(line, sp2 + 1), Len(line)), LAMBDA version :
    With([parser EXCEPT !.req.method = m], LAMBDA p1 :
    IF m = "NONE"
    THEN Ret(parser_set_error(parser, 501,
             <<"U","n","s","u","p","p","o","r","t","e","d"," ","H","T","T","P"," ","m","e","t","h","o","d">>), -1)
    ELSE IF Len(target) = 0 \/ target[1] # "/"
    THEN Ret(parser_set_error(p1, 400,
             <<"I","n","v","a","l","i","d"," ","r","e","q","u","e","s","t"," ","t","a","r","g","e","t">>), -1)
    ELSE IF Len(target) > MAX_REQUEST_LINE_LEN
    THEN Ret(parser_set_error(p1, 414,
             <<"R","e","q","u","e","s","t","-","U","R","I"," ","T","o","o"," ","L","o","n","g">>), -1)
    ELSE
    With(strchr(target, 1, "?"), LAMBDA query :
    With(IF query # 0
         THEN [p1 EXCEPT !.req.query_string = SubSeq(target, query + 1, Len(target)),
                         !.req.path = SubSeq(target, 1, query - 1)]
         ELSE [p1 EXCEPT !.req.path = target], LAMBDA p2 :
    IF version = <<"H","T","T","P","/","1",".","1">>
    THEN Ret([parser_consume(p2, crlf_index + 2) EXCEPT !.keep_alive = TRUE,
                                                       !.state = "HEADERS"], 1)
    ELSE IF version = <<"H","T","T","P","/","1",".","0">>
    THEN Ret([parser_consume(p2, crlf_index + 2) EXCEPT !.keep_alive = FALSE,
                                                       !.state = "HEADERS"], 1)
    ELSE Ret(parser_set_error(p2, 400,
             <<"U","n","s","u","p","p","o","r","t","e","d"," ","H","T","T","P"," ","v","e","r","s","i","o","n">>), -1)
    )))))))))))

RECURSIVE TrimRight(_, _, _)
\* the end (exclusive bound, as a length) after dropping trailing isspace bytes above `low`
TrimRight(s, low, high) ==
    IF high > low /\ isspace(s[high]) THEN TrimRight(s, low, high - 1) ELSE high

RECURSIVE SkipBlankTab(_, _)
SkipBlankTab(s, from) ==
    IF from <= Len(s) /\ s[from] \in {" ", "\t"} THEN SkipBlankTab(s, from + 1) ELSE from

parse_header_line(parser, line) ==
    With(strchr(line, 1, ":"), LAMBDA colon :
    IF colon = 0
    THEN Ret(parser_set_error(parser, 400,
             <<"M","a","l","f","o","r","m","e","d"," ","h","e","a","d","e","r"," ","l","i","n","e">>), -1)
    ELSE
    With(TrimRight(line, 0, colon - 1), LAMBDA name_len :
    IF name_len = 0
    THEN Ret(parser_set_error(parser, 400,
             <<"E","m","p","t","y"," ","h","e","a","d","e","r"," ","n","a","m","e">>), -1)
    ELSE
    With(SkipBlankTab(line, colon + 1), LAMBDA value_start :
    With(TrimRight(line, value_start - 1, Len(line)), LAMBDA value_end :
    With(SubSeq(line, 1, name_len), LAMBDA name_buf :
    With(SubSeq(line, value_start, value_end), LAMBDA value_buf :
    With(lowercase_dup(name_buf), LAMBDA name_lower :
    With([parser EXCEPT !.req.headers =
             header_list_add(@, name_buf, name_buf, value_buf,
                             name_lower # <<"s","e","t","-","c","o","o","k","i","e">>)],
         LAMBDA p1 :
    IF name_lower = <<"c","o","n","t","e","n","t","-","l","e","n","g","t","h">>
    THEN With(strtoul(value_buf, 10), LAMBDA conv :
            IF conv.endp = 0 \/ conv.endp # Len(value_buf)
            THEN Ret(parser_set_error(p1, 400,
                     <<"I","n","v","a","l","i","d"," ","C","o","n","t","e","n","t","-","L","e","n","g","t","h"," ","h","e","a","d","e","r">>), -1)
            ELSE IF conv.val > MAX_BODY_BYTES
            THEN Ret(parser_set_error(p1, 413,
                     <<"P","a","y","l","o","a","d"," ","T","o","o"," ","L","a","r","g","e">>), -1)
            ELSE Ret([p1 EXCEPT !.content_length = conv.val], 0))
    ELSE IF name_lower = <<"t","r","a","n","s","f","e","r","-","e","n","c","o","d","i","n","g">>
    THEN IF strstr(value_buf, <<"c","h","u","n","k","e","d">>)
         THEN Ret([p1 EXCEPT !.chunked = TRUE, !.content_length = 0], 0)
         ELSE Ret(p1, 0)
    ELSE IF name_lower = <<"c","o","n","n","e","c","t","i","o","n">>
    THEN IF strcasestr(value_buf, <<"c","l","o","s","e">>)
         THEN Ret([p1 EXCEPT !.keep_alive = FALSE], 0)
         ELSE IF strcasestr(value_buf, <<"k","e","e","p","-","a","l","i","v","e">>)
         THEN Ret([p1 EXCEPT !.keep_alive = TRUE], 0)
         ELSE Ret(p1, 0)
    ELSE IF name_lower = <<"h","o","s","t">>
    THEN Ret([p1 EXCEPT !.seen_host = TRUE], 0)
    ELSE Ret(p1, 0)
    ))))))))

\* a variant of append_body_data that lets one byte more through
append_body_data_one_more(parser, data) ==
    LET len == Len(data)
        needed == parser.body_received + len + 1
    IN IF parser.body_received + len > MAX_BODY_BYTES + 1
       THEN Ret(parser_set_error(parser, 413,
                <<"P","a","y","l","o","a","d"," ","T","o","o"," ","L","a","r","g","e">>), -1)
       ELSE Ret([parser EXCEPT
                    !.body_capacity =
                        IF needed > @
                        THEN GrowCap(IF @ # 0 THEN @ ELSE READ_BUFFER_SIZE, needed, MAX_BODY_BYTES + 1)
                        ELSE @,
                    !.req.body = SubSeq(@, 1, parser.body_received) \o data,
                    !.body_received = @ + len,
                    !.req.body_length = parser.body_received + len], 0)

append_body_data(parser, data) ==
    LET len == Len(data)
        needed == parser.body_received + len + 1
    IN IF parser.body_received + len > MAX_BODY_BYTES
       THEN Ret(parser_set_error(parser, 413,
                <<"P","a","y","l","o","a","d"," ","T","o","o"," ","L","a","r","g","e">>), -1)
       ELSE Ret([parser EXCEPT
                    !.body_capacity =
                        IF needed > @
                        THEN GrowCap(IF @ # 0 THEN @ ELSE READ_BUFFER_SIZE, needed, MAX_BODY_BYTES + 1)
                        ELSE @,
                    !.req.body = SubSeq(@, 1, parser.body_received) \o data,
                    !.body_received = @ + len,
                    !.req.body_length = parser.body_received + len], 0)

RECURSIVE parse_headers(_)
parse_headers(parser) ==
    With(find_crlf(parser.buffer), LAMBDA crlf_index :
    IF crlf_index < 0
    THEN IF Len(parser.buffer) > MAX_HEADER_BYTES
         THEN Ret(parser_set_error(parser, 431,
                  <<"R","e","q","u","e","s","t"," ","H","e","a","d","e","r"," ","F","i","e","l","d","s"," ","T","o","o"," ","L","a","r","g","e">>), -1)
         ELSE Ret(parser, 0)
    ELSE IF crlf_index = 0
    THEN With(parser_consume(parser, 2), LAMBDA p0 :
            IF p0.keep_alive /\ ~p0.seen_host
            THEN Ret(parser_set_error(p0, 400,
                     <<"M","i","s","s","i","n","g"," ","H","o","s","t"," ","h","e","a","d","e","r">>), -1)
            ELSE IF p0.chunked THEN Ret([p0 EXCEPT !.state = "CHUNK_SIZE"], 1)
            ELSE IF p0.content_length > 0 THEN Ret([p0 EXCEPT !.state = "BODY"], 1)
            ELSE Ret([p0 EXCEPT !.state = "COMPLETE"], 1))
    ELSE IF crlf_index > MAX_HEADER_LINE_LEN
    THEN Ret(parser_set_error(parser, 431,
             <<"H","e","a","d","e","r"," ","l","i","n","e"," ","t","o","o"," ","l","o","n","g">>), -1)
    ELSE IF parser.header_count >= MAX_HEADER_COUNT
    THEN Ret(parser_set_error(parser, 431,
             <<"T","o","o"," ","m","a","n","y"," ","h","e","a","d","e","r","s">>), -1)
    ELSE With(parse_header_line(parser, SubSeq(parser.buffer, 1, crlf_index)), LAMBDA hl :
            IF hl.rc < 0 THEN Ret(hl.p, -1)
            ELSE parse_headers(parser_consume([hl.p EXCEPT !.header_count = @ + 1],
                                              crlf_index + 2))))

parse_chunk_size(parser) ==
    With(find_crlf(parser.buffer), LAMBDA crlf_index :
    IF crlf_index < 0 THEN Ret(parser, 0)
    ELSE
    With(strtoul(SubSeq(parser.buffer, 1, crlf_index), 16), LAMBDA conv :
    IF conv.endp = 0
    THEN Ret(parser_set_error(parser, 400,
             <<"I","n","v","a","l","i","d"," ","c","h","u","n","k"," ","s","i","z","e">>), -1)
    ELSE Ret([parser_consume(parser, crlf_index + 2) EXCEPT
                 !.current_chunk_size = conv.val, !.current_chunk_received = 0,
                 !.state = IF conv.val = 0 THEN "CHUNK_TRAILERS" ELSE "CHUNK_DATA"], 1)))

parse_chunk_data(parser) ==
    With(parser.current_chunk_size - parser.current_chunk_received, LAMBDA remaining :
    With(IF Len(parser.buffer) < remaining THEN Len(parser.buffer) ELSE remaining,
         LAMBDA to_copy :
    IF remaining = 0 THEN Ret([parser EXCEPT !.state = "CHUNK_CRLF"], 1)
    ELSE IF to_copy = 0 THEN Ret(parser, 0)
    ELSE
    With(append_body_data(parser, SubSeq(parser.buffer, 1, to_copy)), LAMBDA ap :
    IF ap.rc < 0 THEN Ret(ap.p, -1)
    ELSE
    With([parser_consume(ap.p, to_copy) EXCEPT !.current_chunk_received = @ + to_copy],
         LAMBDA p1 :
    IF p1.current_chunk_received = p1.current_chunk_size
    THEN Ret([p1 EXCEPT !.state = "CHUNK_CRLF"], 1)
    ELSE Ret(p1, 1)))))

parse_chunk_crlf(parser) ==
    IF Len(parser.buffer) < 2 THEN Ret(parser, 0)
    ELSE IF parser.buffer[1] # "\r" \/ parser.buffer[2] # "\n"
    THEN Ret(parser_set_error(parser, 400,
             <<"M","a","l","f","o","r","m","e","d"," ","c","h","u","n","k"," ","d","a","t","a">>), -1)
    ELSE Ret([parser_consume(parser, 2) EXCEPT !.state = "CHUNK_SIZE"], 1)

\* a variant of parse_chunk_trailers that takes the first line for the last
parse_chunk_trailers_first_line(parser) ==
    With(find_crlf(parser.buffer), LAMBDA crlf_index :
    IF crlf_index < 0 THEN Ret(parser, 0)
    ELSE Ret([parser_consume(parser, crlf_index + 2) EXCEPT
                 !.state = "COMPLETE", !.req.body_length = parser.body_received], 1))

parse_chunk_trailers(parser) ==
    With(find_crlf(parser.buffer), LAMBDA crlf_index :
    IF crlf_index < 0 THEN Ret(parser, 0)
    ELSE IF crlf_index = 0
    THEN Ret([parser_consume(parser, 2) EXCEPT !.state = "COMPLETE",
                                               !.req.body_length = parser.body_received], 1)
    ELSE Ret(parser_consume(parser, crlf_index + 2), 1))

http_parser_reset(parser, req, preserve_buffer) ==
    [parser EXCEPT
        !.state = "REQUEST_LINE",
        !.req = [req EXCEPT !.body_length = 0],
        !.buffer = IF ~preserve_buffer THEN <<>>
                   ELSE IF Len(@) > MAX_REQUEST_BUFFER THEN SubSeq(@, 1, MAX_REQUEST_BUFFER)
                   ELSE @,
        !.total_bytes = IF ~preserve_buffer THEN 0
                        ELSE IF Len(parser.buffer) > MAX_REQUEST_BUFFER THEN MAX_REQUEST_BUFFER
                        ELSE Len(parser.buffer),
        !.header_count = 0, !.content_length = 0, !.body_received = 0,
        !.body_capacity = 0, !.chunked = FALSE, !.current_chunk_size = 0,
        !.current_chunk_received = 0, !.keep_alive = FALSE, !.seen_host = FALSE,
        !.error_status = 400, !.error_message = NULL]

\* what http_parser_execute hands back: the parser after the call and its result
Res(parser, result) == [p |-> parser, result |-> result]

\* the result of one pass of the while loop that goes round again
PARSER_AGAIN == "PARSER_AGAIN"

\* one pass of the body of the while loop of http_parser_execute
execute_iteration(parser) ==
    LET \* what follows the parse function of the state, which handed back r
        Parsed(r) ==
            IF r.rc < 0 THEN Res(r.p, PARSER_ERROR)
            ELSE IF r.rc = 0
            THEN Res(r.p, IF r.p.state = "ERROR" THEN PARSER_ERROR ELSE PARSER_INCOMPLETE)
            ELSE Res(r.p, PARSER_AGAIN)
    IN CASE parser.state = "COMPLETE" -> Res(parser, PARSER_COMPLETE)
         [] parser.state = "ERROR" -> Res(parser, PARSER_ERROR)
         [] parser.state = "BODY" ->
                With(parser.content_length - parser.body_received, LAMBDA remaining :
                With(IF Len(parser.buffer) < remaining THEN Len(parser.buffer) ELSE remaining,
                     LAMBDA to_copy :
                IF to_copy = 0 THEN Res(parser, PARSER_INCOMPLETE)
                ELSE
                With(append_body_data(parser, SubSeq(parser.buffer, 1, to_copy)), LAMBDA ap :
                IF ap.rc < 0 THEN Res(ap.p, PARSER_ERROR)
                ELSE
                With(parser_consume(ap.p, to_copy), LAMBDA pb :
                IF pb.body_received = pb.content_length
                THEN Res([pb EXCEPT !.state = "COMPLETE",
                                    !.req.body_length = pb.body_received], PARSER_COMPLETE)
                ELSE Res(pb, PARSER_AGAIN)))))
         [] parser.state = "REQUEST_LINE" -> With(parse_request_line(parser), Parsed)
         [] parser.state = "HEADERS" -> With(parse_headers(parser), Parsed)
         [] parser.state = "CHUNK_SIZE" -> With(parse_chunk_size(parser), Parsed)
         [] parser.state = "CHUNK_DATA" -> With(parse_chunk_data(parser), Parsed)
         [] parser.state = "CHUNK_CRLF" -> With(parse_chunk_crlf(parser), Parsed)
         [] parser.state = "CHUNK_TRAILERS" -> With(parse_chunk_trailers(parser), Parsed)

(***************************************************************************)
(* The while loop of http_parser_execute, from the outcome r of the passes *)
(* made so far, for at most n more passes.  Every pass that goes round     *)
(* again has consumed at least one byte of the buffer, so Len(buffer) + 1  *)
(* passes always reach a return.  The passes are made half by half, which  *)
(* keeps the nesting of the evaluation logarithmic in n.                   *)
(***************************************************************************)
RECURSIVE execute_loop(_, _)
execute_loop(r, n) ==
    IF r.result # PARSER_AGAIN THEN r
    ELSE IF n <= 1 THEN execute_iteration(r.p)
    ELSE With(execute_loop(r, n \div 2), LAMBDA half :
              execute_loop(half, n - (n \div 2)))

\* a variant of execute_begin that takes new bytes in whatever the state
execute_begin_unlatched(parser, data) ==
    IF Len(data) > 0
    THEN With(ensure_buffer_capacity(parser, Len(data)), LAMBDA cap :
            IF cap.rc < 0 THEN Res(cap.p, PARSER_ERROR)
            ELSE Res([cap.p EXCEPT !.buffer = @ \o data,
                                   !.total_bytes = @ + Len(data)], PARSER_AGAIN))
    ELSE Res(parser, PARSER_AGAIN)

\* http_parser_execute up to its while loop: the latched error, then the new
\* bytes appended to the buffer
execute_begin(parser, data) ==
    IF parser.state = "ERROR" THEN Res(parser, PARSER_ERROR)
    ELSE IF Len(data) > 0
    THEN With(ensure_buffer_capacity(parser, Len(data)), LAMBDA cap :
            IF cap.rc < 0 THEN Res(cap.p, PARSER_ERROR)
            ELSE Res([cap.p EXCEPT !.buffer = @ \o data,
                                   !.total_bytes = @ + Len(data)], PARSER_AGAIN))
    ELSE Res(parser, PARSER_AGAIN)

http_parser_execute(parser, data) ==
    With(execute_begin(parser, data), LAMBDA r : execute_loop(r, Len(r.p.buffer) + 1))

(***************************************************************************)
(* The parser fed directly: a client request, encoded to bytes, is handed  *)
(* to http_parser_execute in consecutive pieces.                           *)
(***************************************************************************)
VARIABLES feed_desc, feed_rest, feed_parser, feed_result

\* a second parser, made fresh, to compare the fed one with
VARIABLES fresh_parser, fresh_result

feed_vars == <<feed_desc, feed_rest, feed_parser, feed_result, fresh_parser, fresh_result>>

\* the state of the running server (described with the server, further down)
VARIABLES async_mode, conns, socks, backlog, loop, hist, last

server_vars == <<async_mode, conns, socks, backlog, loop, hist, last>>

\* an event loop driven by a program of its own (described with the loop's
\* run, further down)
VARIABLES el, el_pc, el_script, el_events, el_rounds, el_rc

el_vars == <<el, el_pc, el_script, el_events, el_rounds, el_rc>>

\* no such program
ElIdle ==
    /\ el = <<>> /\ el_pc = "none" /\ el_script = <<>>
    /\ el_events = <<>> /\ el_rounds = 0 /\ el_rc = 0

\* header lists set entry by entry (described with the claims about them)
VARIABLE hdr

\* a connection pool with the threads that call it, a rate limiter with the
\* clock it reads, a threaded server being stopped (each described with its
\* steps, further down)
VARIABLES dbp, rlim, stp

lib_vars == <<dbp, rlim, stp>>

\* none of the three
LibIdle == dbp = <<>> /\ rlim = <<>> /\ stp = <<>>

vars == <<feed_vars, server_vars, el_vars, hdr, lib_vars>>

CRLF == <<"\r","\n">>

RECURSIVE Concat(_)
Concat(ss) == IF ss = <<>> THEN <<>> ELSE Head(ss) \o Concat(Tail(ss))

\* decimal text of n, as printf("%zu") writes it
RECURSIVE Decimal(_)
Decimal(n) == IF n < 10 THEN <<Digits[n + 1]>> ELSE Append(Decimal(n \div 10), Digits[(n % 10) + 1])

\* the largest number of one-byte chunks a described request carries
MaxChunks == 16

ChunkLists ==
    {<<>>, << <<"a","b">> >>, << <<"a">>, <<"b">> >>, [i \in 1..MaxChunks |-> <<"a">>]}

RequestDescs ==
    [version : {<<"H","T","T","P","/","1",".","1">>, <<"H","T","T","P","/","1",".","0">>},
     host : BOOLEAN,
     conn : {<<>>, <<"c","l","o","s","e">>, <<"k","e","e","p","-","a","l","i","v","e">>},
     framing : {"none", "length", "chunked", "length_chunked", "chunked_length"},
     token : {<<"c","h","u","n","k","e","d">>, <<"C","h","u","n","k","e","d">>},
     chunks : ChunkLists]

\* the described requests: one spelling per framing that has no chunked token,
\* a body exactly when the framing carries one
Described(d) ==
    /\ (d.framing = "none") = (d.chunks = <<>>)
    /\ d.framing # "chunked" => d.token = <<"c","h","u","n","k","e","d">>
    /\ d.framing \notin {"none", "chunked"} => d.chunks = << <<"a","b">> >>
    /\ d.token # <<"c","h","u","n","k","e","d">> => d.chunks = << <<"a","b">> >>

HeaderLine(name, value) == name \o <<":"," ">> \o value \o CRLF

ChunkText(chunk) == Decimal(Len(chunk)) \o CRLF \o chunk \o CRLF

RECURSIVE ChunkedText(_)
ChunkedText(chunks) ==
    IF chunks = <<>> THEN <<"0">> \o CRLF \o CRLF
    ELSE ChunkText(Head(chunks)) \o ChunkedText(Tail(chunks))

LengthHeader(d) ==
    HeaderLine(<<"C","o","n","t","e","n","t","-","L","e","n","g","t","h">>,
               Decimal(Len(Concat(d.chunks))))

EncodingHeader(d) ==
    HeaderLine(<<"T","r","a","n","s","f","e","r","-","E","n","c","o","d","i","n","g">>, d.token)

\* the bytes a client sends for the described request
RequestText(d) ==
    (IF d.framing = "none" THEN <<"G","E","T"," ","/","a">> ELSE <<"P","O","S","T"," ","/","e">>)
    \o <<" ">> \o d.version \o CRLF
    \o (IF d.host THEN HeaderLine(<<"H","o","s","t">>, <<"x">>) ELSE <<>>)
    \o (IF d.conn # <<>> THEN HeaderLine(<<"C","o","n","n","e","c","t","i","o","n">>, d.conn) ELSE <<>>)
    \o (CASE d.framing = "length" -> LengthHeader(d)
          [] d.framing = "chunked" -> EncodingHeader(d)
          [] d.framing = "length_chunked" -> LengthHeader(d) \o EncodingHeader(d)
          [] d.framing = "chunked_length" -> EncodingHeader(d) \o LengthHeader(d)
          [] OTHER -> <<>>)
    \o CRLF
    \o (CASE d.framing = "none" -> <<>>
          [] d.framing = "length" -> Concat(d.chunks)
          [] OTHER -> ChunkedText(d.chunks))

FeedInit ==
    /\ feed_desc \in {d \in RequestDescs : Described(d)}
    /\ feed_rest = RequestText(feed_desc)
    /\ feed_parser = http_parser_init(http_request_create)
    /\ feed_result = PARSER_INCOMPLETE
    /\ fresh_parser = <<>> /\ fresh_result = <<>>
    /\ async_mode = FALSE /\ conns = <<>> /\ socks = <<>> /\ backlog = <<>>
    /\ loop = <<>> /\ hist = <<>> /\ last = <<>>
    /\ ElIdle /\ hdr = <<>> /\ LibIdle

\* one call of http_parser_execute with the next len bytes of the request
Feed(len) ==
    /\ \E r \in {http_parser_execute(feed_parser, SubSeq(feed_rest, 1, len))} :
          feed_parser' = r.p /\ feed_result' = r.result
    /\ feed_rest' = SubSeq(feed_rest, len + 1, Len(feed_rest))
    /\ UNCHANGED <<feed_desc, fresh_parser, fresh_result, server_vars, el_vars, hdr, lib_vars>>

\* the piece sizes tried: single bytes, short pieces, a full read buffer, all the rest
FeedLens == {1, 2, 3, 5, READ_BUFFER_SIZE, Len(feed_rest)}

FeedNext == \E len \in FeedLens : len \in 1..Len(feed_rest) /\ Feed(len)

SpecFeed == FeedInit /\ [][FeedNext]_vars

(***************************************************************************)
(* Claims about the parser fed directly (checked under SpecFeed)           *)
(***************************************************************************)
FeedDone == feed_rest = <<>>

\* the whole request fits the parser's buffer, so no piece is refused for its size
FeedFits == Len(RequestText(feed_desc)) <= MAX_REQUEST_BUFFER

LowerToken == feed_desc.token = <<"c","h","u","n","k","e","d">>

\* what a described request asks for, read off the description (not off the parser)
DescMethod(d) == IF d.framing = "none" THEN "HTTP_GET" ELSE "HTTP_POST"
DescPath(d) == IF d.framing = "none" THEN <<"/","a">> ELSE <<"/","e">>
DescKeepAlive(d) ==
    IF d.conn = <<"c","l","o","s","e">> THEN FALSE
    ELSE IF d.conn = <<"k","e","e","p","-","a","l","i","v","e">> THEN TRUE
    ELSE d.version = <<"H","T","T","P","/","1",".","1">>

\* C6: every HTTP/1.1 request whose header block has no Host header is rejected
\* with status 400, whatever its other headers (stated for requests that fit
\* the buffer, once all their bytes are fed).
C6_NoHostRejected ==
    (FeedDone /\ FeedFits /\ ~feed_desc.host
        /\ feed_desc.version = <<"H","T","T","P","/","1",".","1">>)
    => (feed_result = PARSER_ERROR /\ feed_parser.error_status = 400)

\* C7: a request carrying both Content-Length and Transfer-Encoding: chunked, in
\* either order, is never parsed as a fixed-length or chunked request and ends
\* rejected with status 400.
C7_LengthWithChunkedRejected ==
    feed_desc.framing \in {"length_chunked", "chunked_length"}
    => /\ feed_parser.state \notin {"BODY", "CHUNK_SIZE", "CHUNK_DATA", "CHUNK_CRLF",
                                    "CHUNK_TRAILERS", "COMPLETE"}
       /\ (FeedDone /\ FeedFits)
            => (feed_result = PARSER_ERROR /\ feed_parser.error_status = 400)

\* C8: for every letter-case spelling of the chunked token the parser enters
\* chunked mode and the chunk-framed bytes become the request's body; none of
\* them is left over as a following request (stated for requests carrying Host).
C8_ChunkedTokenAnyCase ==
    (FeedDone /\ FeedFits /\ feed_desc.host /\ feed_desc.framing = "chunked")
    => /\ feed_result = PARSER_COMPLETE
       /\ feed_parser.chunked
       /\ feed_parser.req.body = Concat(feed_desc.chunks)
       /\ feed_parser.buffer = <<>>

\* C9: a well-formed HTTP/1.0 request without Host is accepted whatever other
\* headers it carries, Connection: keep-alive included.
C9_Http10WithoutHostAccepted ==
    (FeedDone /\ FeedFits /\ ~feed_desc.host /\ LowerToken
        /\ feed_desc.version = <<"H","T","T","P","/","1",".","0">>
        /\ feed_desc.framing \in {"none", "length", "chunked"})
    => feed_result = PARSER_COMPLETE

C12_ErrorLatched ==
    [][feed_parser.state = "ERROR"
          => (feed_result' = PARSER_ERROR /\ feed_parser' = feed_parser)]_vars

\* a request refused at the end of its headers, before its body bytes were fed:
\* the body bytes were fed to the parser in ERROR and are not in its buffer
C12_Witness ==
    /\ FeedDone
    /\ feed_desc.framing = "length"
    /\ feed_parser.state = "ERROR"
    /\ feed_result = PARSER_ERROR
    /\ feed_parser.error_status = 400
    /\ feed_parser.buffer = <<>>

\* C19: in every state of the parser total_bytes is at most MAX_REQUEST_BUFFER.
C19_TotalBytesBounded == feed_parser.total_bytes <= MAX_REQUEST_BUFFER

(***************************************************************************)
(* Pipelining at the parser: two requests are written back to back; the    *)
(* parser is fed the first of them together with the leading bytes of the  *)
(* second (the leftover), is reset with preserve_buffer = true as the      *)
(* server does between requests, and is then fed further bytes.            *)
(***************************************************************************)
ValidDesc(framing, chunks) ==
    [version |-> <<"H","T","T","P","/","1",".","1">>, host |-> TRUE, conn |-> <<>>,
     framing |-> framing, token |-> <<"c","h","u","n","k","e","d">>, chunks |-> chunks]

\* among them a request that fits the parser's buffer once but not twice
PipeFirsts ==
    {ValidDesc("none", <<>>), ValidDesc("length", << <<"a","b">> >>),
     ValidDesc("chunked", << <<"a","b">> >>),
     ValidDesc("chunked", [i \in 1..(MaxChunks \div 2) |-> <<"a">>])}

PipeSeconds ==
    PipeFirsts \cup {ValidDesc("chunked", [i \in 1..MaxChunks |-> <<"a">>]),
                     [ValidDesc("none", <<>>) EXCEPT !.host = FALSE]}

\* how many bytes of the second request arrive with the first
PipeCuts == {0, 1, 5, 20, 72}

PipeText(d) == RequestText(d.first) \o RequestText(d.second)

PipeInit ==
    /\ feed_desc \in {d \in [first : PipeFirsts, second : PipeSeconds,
                             cut : 0..(MAX_REQUEST_BUFFER + READ_BUFFER_SIZE)] :
                        \/ d.cut \in PipeCuts /\ d.cut < Len(RequestText(d.second))
                        \/ d.cut = Len(RequestText(d.second))}
    /\ feed_rest = PipeText(feed_desc)
    /\ feed_parser = http_parser_init(http_request_create)
    /\ feed_result = PARSER_INCOMPLETE
    /\ fresh_parser = <<>> /\ fresh_result = <<>>
    /\ async_mode = FALSE /\ conns = <<>> /\ socks = <<>> /\ backlog = <<>>
    /\ loop = <<>> /\ hist = <<>> /\ last = <<>>
    /\ ElIdle /\ hdr = <<>> /\ LibIdle

\* the first call: the first request and the first cut bytes of the second
PipeFirst ==
    /\ feed_rest = PipeText(feed_desc)
    /\ \E len \in {Len(RequestText(feed_desc.first)) + feed_desc.cut} :
       \E r \in {http_parser_execute(feed_parser, SubSeq(feed_rest, 1, len))} :
          /\ feed_parser' = r.p /\ feed_result' = r.result
          /\ feed_rest' = SubSeq(feed_rest, len + 1, Len(feed_rest))
    /\ UNCHANGED <<feed_desc, fresh_parser, fresh_result, server_vars, el_vars, hdr, lib_vars>>

\* the first request is complete: the parser is reset for the next one, over
\* the leftover bytes
PipeReset ==
    /\ feed_rest # PipeText(feed_desc)
    /\ feed_parser.state = "COMPLETE"
    /\ fresh_parser = <<>>
    /\ feed_parser' = http_parser_reset(feed_parser, http_request_create, TRUE)
    /\ UNCHANGED <<feed_desc, feed_rest, feed_result, fresh_parser, fresh_result, server_vars, el_vars, hdr, lib_vars>>

\* the call after the reset, with the next len bytes (none: the server's call
\* with len 0 over the leftover); a fresh parser is given the leftover and
\* the same bytes in one piece
PipeSecond(len) ==
    /\ feed_rest # PipeText(feed_desc)
    /\ feed_parser.state = "REQUEST_LINE"
    /\ fresh_parser = <<>>
    /\ \E data \in {SubSeq(feed_rest, 1, len)} :
       \E r \in {http_parser_execute(feed_parser, data)} :
       \E f \in {http_parser_execute(http_parser_init(http_request_create),
                                     feed_parser.buffer \o data)} :
          /\ feed_parser' = r.p /\ feed_result' = r.result
          /\ fresh_parser' = f.p /\ fresh_result' = f.result
    /\ feed_rest' = SubSeq(feed_rest, len + 1, Len(feed_rest))
    /\ UNCHANGED <<feed_desc, server_vars, el_vars, hdr, lib_vars>>

PipeNext ==
    \/ PipeFirst
    \/ PipeReset
    \/ \E len \in {0} \cup FeedLens : len \in 0..Len(feed_rest) /\ PipeSecond(len)

SpecPipe == PipeInit /\ [][PipeNext]_vars

\* what a request parses to when a fresh parser is given it alone
Alone(d) == http_parser_execute(http_parser_init(http_request_create), RequestText(d))

\* both requests were handed over in the first call
PipeOneBuffer == feed_desc.cut = Len(RequestText(feed_desc.second))

HexLower == <<"0","1","2","3","4","5","6","7","8","9","a","b","c","d","e","f">>
HexUpper == <<"0","1","2","3","4","5","6","7","8","9","A","B","C","D","E","F">>

\* hexadecimal text of n, in the given digits
RECURSIVE Hex(_, _)
Hex(n, digits) ==
    IF n < 16 THEN <<digits[n + 1]>> ELSE Append(Hex(n \div 16, digits), digits[(n % 16) + 1])

\* the payloads of the chunked bodies tried: none, the "hello world" of two
\* chunks, a chunk whose size takes a letter digit followed by a chunk whose
\* payload is a CR LF, and one chunk of MAX_BODY_BYTES bytes
ChunkPayloads ==
    {<<>>,
     << <<"h","e","l","l","o"," ">>, <<"w","o","r","l","d">> >>,
     << [i \in 1..10 |-> "a"], <<"\r","\n">> >>,
     << [i \in 1..MAX_BODY_BYTES |-> "b"] >>}

ChunkedDescs ==
    [payloads : ChunkPayloads,
     digits : {HexLower, HexUpper},
     ext : {<<>>, <<";","x","=","1">>},
     trailers : {<<>>, << <<"T",":"," ","v">> >>,
                 << <<"T",":"," ","v">>, <<"U",":"," ","0">> >>}]

RECURSIVE ChunkedBody(_, _)
ChunkedBody(d, payloads) ==
    IF payloads = <<>>
    THEN <<"0">> \o d.ext \o CRLF
         \o Concat([i \in 1..Len(d.trailers) |-> d.trailers[i] \o CRLF]) \o CRLF
    ELSE Hex(Len(Head(payloads)), d.digits) \o d.ext \o CRLF \o Head(payloads) \o CRLF
         \o ChunkedBody(d, Tail(payloads))

\* the bytes a client sends for the described chunked request
ChunkedRequestText(d) ==
    <<"P","O","S","T"," ","/","e"," ","H","T","T","P","/","1",".","1">> \o CRLF
    \o HeaderLine(<<"H","o","s","t">>, <<"x">>)
    \o HeaderLine(<<"T","r","a","n","s","f","e","r","-","E","n","c","o","d","i","n","g">>,
                  <<"c","h","u","n","k","e","d">>)
    \o CRLF
    \o ChunkedBody(d, d.payloads)

ChunkInit ==
    /\ feed_desc \in ChunkedDescs
    /\ feed_rest = ChunkedRequestText(feed_desc)
    /\ feed_parser = http_parser_init(http_request_create)
    /\ feed_result = PARSER_INCOMPLETE
    /\ fresh_parser = <<>> /\ fresh_result = <<>>
    /\ async_mode = FALSE /\ conns = <<>> /\ socks = <<>> /\ backlog = <<>>
    /\ loop = <<>> /\ hist = <<>> /\ last = <<>>
    /\ ElIdle /\ hdr = <<>> /\ LibIdle

\* http_parser_execute is called with the next len bytes and reaches its loop
ChunkArrive(len) ==
    /\ feed_result # PARSER_AGAIN
    /\ \E r \in {execute_begin(feed_parser, SubSeq(feed_rest, 1, len))} :
          feed_parser' = r.p /\ feed_result' = r.result
    /\ feed_rest' = SubSeq(feed_rest, len + 1, Len(feed_rest))
    /\ UNCHANGED <<feed_desc, fresh_parser, fresh_result, server_vars, el_vars, hdr, lib_vars>>

\* one pass of the while loop of the call under way
ChunkPass ==
    /\ feed_result = PARSER_AGAIN
    /\ \E r \in {execute_iteration(feed_parser)} :
          feed_parser' = r.p /\ feed_result' = r.result
    /\ UNCHANGED <<feed_desc, feed_rest, fresh_parser, fresh_result, server_vars, el_vars, hdr, lib_vars>>

ChunkNext ==
    \/ \E len \in FeedLens : len \in 1..Len(feed_rest) /\ ChunkArrive(len)
    \/ ChunkPass

SpecChunk == ChunkInit /\ [][ChunkNext]_vars

\* the states that may follow a state within one step of the chunked walk
ChunkSuccessors(state) ==
    CASE state = "REQUEST_LINE" -> {"REQUEST_LINE", "HEADERS"}
      [] state = "HEADERS" -> {"HEADERS", "CHUNK_SIZE"}
      [] state = "CHUNK_SIZE" -> {"CHUNK_SIZE", "CHUNK_DATA", "CHUNK_TRAILERS"}
      [] state = "CHUNK_DATA" -> {"CHUNK_DATA", "CHUNK_CRLF"}
      [] state = "CHUNK_CRLF" -> {"CHUNK_CRLF", "CHUNK_SIZE"}
      [] state = "CHUNK_TRAILERS" -> {"CHUNK_TRAILERS", "COMPLETE"}
      [] OTHER -> {state}

RECURSIVE SumLen(_)
SumLen(ss) == IF ss = <<>> THEN 0 ELSE Len(Head(ss)) + SumLen(Tail(ss))

\* C13: on a well-formed chunked request the parser goes CHUNK_SIZE,
\* CHUNK_DATA, CHUNK_CRLF and round again, leaves CHUNK_SIZE for
\* CHUNK_TRAILERS exactly on a zero size, reaches COMPLETE only when the
\* blank line after the trailers has been taken (no byte is left), and then
\* holds as body the chunk payloads in order, body_length the sum of the chunk
\* sizes; at no point does the body hold a byte of an extension or a trailer.
C13_ChunkedWalk ==
    /\ [][/\ feed_parser'.state \in ChunkSuccessors(feed_parser.state)
          /\ (feed_parser.state = "CHUNK_SIZE" /\ feed_parser'.state # "CHUNK_SIZE")
                => ((feed_parser'.state = "CHUNK_TRAILERS")
                        <=> (feed_parser'.current_chunk_size = 0))]_vars
    /\ [](/\ IsPrefix(feed_parser.req.body, Concat(feed_desc.payloads))
          /\ feed_parser.state = "COMPLETE" =>
                /\ feed_rest = <<>> /\ feed_parser.buffer = <<>>
                /\ feed_result \in {PARSER_AGAIN, PARSER_COMPLETE}
                /\ feed_parser.req.body = Concat(feed_desc.payloads)
                /\ feed_parser.req.body_length = SumLen(feed_desc.payloads)
          /\ (feed_rest = <<>> /\ feed_result # PARSER_AGAIN)
                => (feed_parser.state = "COMPLETE" /\ feed_result = PARSER_COMPLETE))

\* a request with an extension on its chunks and two trailer lines, complete
C13_Witness ==
    /\ feed_parser.state = "COMPLETE"
    /\ feed_desc.ext # <<>>
    /\ Len(feed_desc.trailers) = 2
    /\ Len(feed_desc.payloads) = 2
    /\ feed_parser.req.body_length = 11

(***************************************************************************)
(* Requests at the parser's limits: request targets, header blocks and     *)
(* bodies of sizes at and next to MAX_REQUEST_LINE_LEN, MAX_HEADER_BYTES   *)
(* and MAX_BODY_BYTES, fed in pieces of at most READ_BUFFER_SIZE bytes, as *)
(* the server's reads hand them over.                                      *)
(***************************************************************************)
Fill(n, c) == [i \in 1..n |-> c]

\* the longest padding header line written, CR LF included
PadLineMax == MAX_HEADER_LINE_LEN - 4

\* header lines "A: pp...p" of n bytes in all, CR LF included, none longer than most
RECURSIVE PadHeaders(_, _)
PadHeaders(n, most) ==
    IF n = 0 THEN <<>>
    ELSE IF n <= most THEN <<"A",":"," ">> \o Fill(n - 5, "p") \o CRLF
    ELSE <<"A",":"," ">> \o Fill(most - 5, "p") \o CRLF \o PadHeaders(n - most, most)

LimitDesc(target, pad, most, framing, body, parts) ==
    [target |-> target, pad |-> pad, most |-> most, framing |-> framing,
     body |-> body, parts |-> parts]

\* "GET " and " HTTP/1.1" around the target make 13 bytes of the request line
LimitLineDescs ==
    {LimitDesc(<<lead>> \o Fill(n - 1, "t"), 0, PadLineMax, "none", 0, 1) :
        lead \in {"/", "x"},
        n \in {1, MAX_REQUEST_LINE_LEN - 13, MAX_REQUEST_LINE_LEN - 12,
               MAX_REQUEST_LINE_LEN, MAX_REQUEST_LINE_LEN + 1}}

\* "Host: x" and the blank line make 11 bytes of the header block
LimitBlockDescs ==
    {LimitDesc(<<"/">>, pad, PadLineMax, "none", 0, 1) :
        pad \in {MAX_HEADER_BYTES - 12, MAX_HEADER_BYTES - 11, MAX_HEADER_BYTES - 10}}
    \cup {LimitDesc(<<"/">>, pad, pad, "none", 0, 1) :
            pad \in {MAX_HEADER_BYTES - 10, MAX_HEADER_BYTES + 5}}

LimitBodyDescs ==
    {LimitDesc(<<"/">>, 0, PadLineMax, d[1], d[2], d[3]) :
        d \in ({"length"} \X {MAX_BODY_BYTES - 1, MAX_BODY_BYTES, MAX_BODY_BYTES + 1} \X {1})
              \cup ({"chunked"} \X {MAX_BODY_BYTES - 1, MAX_BODY_BYTES, MAX_BODY_BYTES + 1}
                                \X {1, 2})}

LimitDescs == LimitLineDescs \cup LimitBlockDescs \cup LimitBodyDescs

\* the header block of the described request: every header line and the blank line
LimitHeaderBlock(d) ==
    HeaderLine(<<"H","o","s","t">>, <<"x">>)
    \o PadHeaders(d.pad, d.most)
    \o (CASE d.framing = "length" ->
                HeaderLine(<<"C","o","n","t","e","n","t","-","L","e","n","g","t","h">>,
                           Decimal(d.body))
          [] d.framing = "chunked" ->
                HeaderLine(<<"T","r","a","n","s","f","e","r","-","E","n","c","o","d","i","n","g">>,
                           <<"c","h","u","n","k","e","d">>)
          [] OTHER -> <<>>)
    \o CRLF

\* the body of the described request as its chunk payloads: in one part, or
\* with its last byte in a chunk of its own
LimitPayloads(d) ==
    IF d.parts = 1 THEN << Fill(d.body, "b") >> ELSE << Fill(d.body - 1, "b"), <<"b">> >>

LimitText(d) ==
    (IF d.framing = "none" THEN <<"G","E","T">> ELSE <<"P","O","S","T">>)
    \o <<" ">> \o d.target \o <<" ","H","T","T","P","/","1",".","1">> \o CRLF
    \o LimitHeaderBlock(d)
    \o (CASE d.framing = "length" -> Fill(d.body, "b")
          [] d.framing = "chunked" ->
                ChunkedBody([ext |-> <<>>, digits |-> HexLower, trailers |-> <<>>],
                            LimitPayloads(d))
          [] OTHER -> <<>>)

LimitInit ==
    /\ feed_desc \in LimitDescs
    /\ feed_rest = LimitText(feed_desc)
    /\ feed_parser = http_parser_init(http_request_create)
    /\ feed_result = PARSER_INCOMPLETE
    /\ fresh_parser = <<>> /\ fresh_result = <<>>
    /\ async_mode = FALSE /\ conns = <<>> /\ socks = <<>> /\ backlog = <<>>
    /\ loop = <<>> /\ hist = <<>> /\ last = <<>>
    /\ ElIdle /\ hdr = <<>> /\ LibIdle

\* the piece sizes a read of at most READ_BUFFER_SIZE bytes hands over
RecvLens == {len \in FeedLens : len <= READ_BUFFER_SIZE}

LimitNext == \E len \in RecvLens : len \in 1..Len(feed_rest) /\ Feed(len)

SpecLimit == LimitInit /\ [][LimitNext]_vars

(***************************************************************************)
(* Claims about the parser at its limits (checked under SpecLimit)         *)
(***************************************************************************)
\* the described request keeps within every limit but the one named
LimitLineOnly == feed_desc.pad = 0 /\ feed_desc.framing = "none"

\* C16: a request whose header block is exactly MAX_HEADER_BYTES long is
\* accepted, and every request whose header block is longer is rejected with
\* status 431.
C16_HeaderBlockLimit ==
    (FeedDone /\ Len(feed_desc.target) = 1 /\ feed_desc.framing = "none") =>
        /\ Len(LimitHeaderBlock(feed_desc)) = MAX_HEADER_BYTES
              => feed_result = PARSER_COMPLETE
        /\ Len(LimitHeaderBlock(feed_desc)) > MAX_HEADER_BYTES
              => (feed_result = PARSER_ERROR /\ feed_parser.error_status = 431)

\* C17: a fixed-length or chunked body of exactly MAX_BODY_BYTES bytes is
\* accepted and arrives whole, a body one byte longer is rejected with status
\* 413, and in every state body_received is at most MAX_BODY_BYTES and, for a
\* fixed-length body, at most content_length.
C17_BodyLimit ==
    /\ feed_parser.body_received <= MAX_BODY_BYTES
    /\ ~feed_parser.chunked /\ feed_parser.state \in {"BODY", "COMPLETE"}
          => feed_parser.body_received <= feed_parser.content_length
    /\ (FeedDone /\ feed_desc.framing # "none") =>
          /\ feed_desc.body <= MAX_BODY_BYTES =>
                /\ feed_result = PARSER_COMPLETE
                /\ feed_parser.req.body = Fill(feed_desc.body, "b")
                /\ feed_parser.body_received = feed_desc.body
          /\ feed_desc.body = MAX_BODY_BYTES + 1 =>
                /\ feed_result = PARSER_ERROR
                /\ feed_parser.error_status = 413

\* a chunked body of exactly MAX_BODY_BYTES bytes in two chunks, taken whole
C17_Witness ==
    /\ FeedDone
    /\ feed_desc.framing = "chunked" /\ feed_desc.parts = 2
    /\ feed_desc.body = MAX_BODY_BYTES
    /\ feed_result = PARSER_COMPLETE
    /\ feed_parser.body_received = MAX_BODY_BYTES

\* C18: a request line with a supported method and version is accepted when
\* its target begins with '/' and is at most MAX_REQUEST_LINE_LEN bytes long,
\* rejected with 414 when its target is longer than MAX_REQUEST_LINE_LEN, and
\* rejected with 400 when its target does not begin with '/'.
C18_TargetLimit ==
    (FeedDone /\ LimitLineOnly) =>
        /\ (feed_desc.target[1] = "/" /\ Len(feed_desc.target) <= MAX_REQUEST_LINE_LEN)
              => feed_result = PARSER_COMPLETE
        /\ Len(feed_desc.target) > MAX_REQUEST_LINE_LEN
              => (feed_result = PARSER_ERROR /\ feed_parser.error_status = 414)
        /\ (feed_desc.target[1] # "/" /\ Len(feed_desc.target) <= MAX_REQUEST_LINE_LEN)
              => (feed_result = PARSER_ERROR /\ feed_parser.error_status = 400)

(***************************************************************************)
(* Responses, the serializer and the router                                *)
(***************************************************************************)
\* calloc'd http_response_t with status HTTP_OK
http_response_create ==
    [status |-> 200, body |-> NULL, body_length |-> 0, headers |-> <<>>, sent |-> FALSE]

status_reason_phrase(status) ==
    CASE status = 200 -> <<"O","K">>
      [] status = 201 -> <<"C","r","e","a","t","e","d">>
      [] status = 202 -> <<"A","c","c","e","p","t","e","d">>
      [] status = 204 -> <<"N","o"," ","C","o","n","t","e","n","t">>
      [] status = 400 -> <<"B","a","d"," ","R","e","q","u","e","s","t">>
      [] status = 401 -> <<"U","n","a","u","t","h","o","r","i","z","e","d">>
      [] status = 403 -> <<"F","o","r","b","i","d","d","e","n">>
      [] status = 404 -> <<"N","o","t"," ","F","o","u","n","d">>
      [] status = 405 -> <<"M","e","t","h","o","d"," ","N","o","t"," ","A","l","l","o","w","e","d">>
      [] status = 500 -> <<"I","n","t","e","r","n","a","l"," ","S","e","r","v","e","r"," ","E","r","r","o","r">>
      [] status = 501 -> <<"N","o","t"," ","I","m","p","l","e","m","e","n","t","e","d">>
      [] status = 502 -> <<"B","a","d"," ","G","a","t","e","w","a","y">>
      [] status = 503 -> <<"S","e","r","v","i","c","e"," ","U","n","a","v","a","i","l","a","b","l","e">>
      [] OTHER -> <<"O","K">>

http_response_send_text(res, status, text) ==
    IF text = NULL THEN res
    ELSE [res EXCEPT !.body = text, !.body_length = Len(text), !.status = status]

\* NULL when the request has no header of that name
http_request_get_header(req, key) ==
    With(header_list_find(req.headers, lowercase_dup(key)), LAMBDA node :
        IF node = 0 THEN NULL ELSE req.headers[node].value)

http_response_set_header(res, key, value) ==
    [res EXCEPT !.headers = header_list_add(@, key, key, value, TRUE)]

\* what strftime writes for the clock reading; the model's clock shows one instant
date_buf == <<"D">>

\* the loop of serialize_response writing "raw_name: value\r\n" for each node
RECURSIVE HeaderLines(_)
HeaderLines(nodes) ==
    IF nodes = <<>> THEN <<>>
    ELSE Head(nodes).raw_name \o <<":"," ">> \o Head(nodes).value \o CRLF
         \o HeaderLines(Tail(nodes))

\* a variant of serialize_response that leaves a Content-Length header the
\* handler set in place and adds its own after it
serialize_response_adds_length(res, keep_alive) ==
    With(IF res.status = 0 THEN 200 ELSE res.status, LAMBDA status :
    With(header_list_add(res.headers, <<"d","a","t","e">>, <<"D","a","t","e">>,
                         date_buf, TRUE), LAMBDA h1 :
    With(header_list_add(h1, <<"c","o","n","t","e","n","t","-","l","e","n","g","t","h">>,
                         <<"C","o","n","t","e","n","t","-","L","e","n","g","t","h">>,
                         Decimal(res.body_length), FALSE), LAMBDA h2 :
    With(header_list_add(h2, <<"c","o","n","n","e","c","t","i","o","n">>,
                         <<"C","o","n","n","e","c","t","i","o","n">>,
                         IF keep_alive THEN <<"k","e","e","p","-","a","l","i","v","e">>
                         ELSE <<"c","l","o","s","e">>, TRUE), LAMBDA h3 :
        [res |-> [res EXCEPT !.status = status, !.headers = h3],
         header_buf |-> <<"H","T","T","P","/","1",".","1"," ">> \o Decimal(status) \o <<" ">>
                        \o status_reason_phrase(status) \o CRLF \o HeaderLines(h3) \o CRLF]))))

\* the response with its headers completed, and the header block written for it
serialize_response(res, keep_alive) ==
    With(IF res.status = 0 THEN 200 ELSE res.status, LAMBDA status :
    With(header_list_add(res.headers, <<"d","a","t","e">>, <<"D","a","t","e">>,
                         date_buf, TRUE), LAMBDA h1 :
    With(header_list_add(h1, <<"c","o","n","t","e","n","t","-","l","e","n","g","t","h">>,
                         <<"C","o","n","t","e","n","t","-","L","e","n","g","t","h">>,
                         Decimal(res.body_length), TRUE), LAMBDA h2 :
    With(header_list_add(h2, <<"c","o","n","n","e","c","t","i","o","n">>,
                         <<"C","o","n","n","e","c","t","i","o","n">>,
                         IF keep_alive THEN <<"k","e","e","p","-","a","l","i","v","e">>
                         ELSE <<"c","l","o","s","e">>, TRUE), LAMBDA h3 :
        [res |-> [res EXCEPT !.status = status, !.headers = h3],
         header_buf |-> <<"H","T","T","P","/","1",".","1"," ">> \o Decimal(status) \o <<" ">>
                        \o status_reason_phrase(status) \o CRLF \o HeaderLines(h3) \o CRLF]))))

\* a variant of response_forces_close that finds no header that forces the close
response_forces_close_never(headers) == FALSE

RECURSIVE response_forces_close(_)
response_forces_close(headers) ==
    IF headers = <<>> THEN FALSE
    ELSE IF Head(headers).name = <<"c","o","n","n","e","c","t","i","o","n">>
            /\ strcasecmp(Head(headers).value, <<"c","l","o","s","e">>) = 0
    THEN TRUE
    ELSE IF Head(headers).name = <<"c","o","n","n","e","c","t","i","o","n">>
            /\ strcasecmp(Head(headers).value, <<"k","e","e","p","-","a","l","i","v","e">>) = 0
    THEN FALSE
    ELSE response_forces_close(Tail(headers))

\* the body bytes a response puts on the wire
BodyBytes(res) == IF res.body = NULL \/ res.body_length = 0 THEN <<>> ELSE res.body

\* The application's handlers (route_handler_t): the library takes them from
\* its user; these stand for a text reply, an echo of the request body,
\* a reply that asks for the connection to be closed, a reply that sets
\* Content-Length and Connection headers of its own, and a handler that
\* returns without writing.
route_handler(handler, req, res) ==
    CASE handler = "handle_a" -> http_response_send_text(res, 200, <<"A">>)
      [] handler = "handle_echo" -> http_response_send_text(res, 200, req.body)
      [] handler = "handle_close" ->
            http_response_send_text(
                http_response_set_header(res, <<"C","o","n","n","e","c","t","i","o","n">>,
                                         <<"c","l","o","s","e">>),
                200, <<"C">>)
      [] handler = "handle_length" ->
            http_response_send_text(
                http_response_set_header(
                    http_response_set_header(
                        res, <<"c","o","n","t","e","n","t","-","l","e","n","g","t","h">>, <<"9">>),
                    <<"C","o","n","n","e","c","t","i","o","n">>,
                    <<"k","e","e","p","-","a","l","i","v","e">>),
                200, <<"L">>)
      [] OTHER -> res

\* the routes the application registered with router_add_route, none with parameters
router ==
    << [method |-> "HTTP_GET", path |-> <<"/","a">>, handler |-> "handle_a"],
       [method |-> "HTTP_POST", path |-> <<"/","e">>, handler |-> "handle_echo"],
       [method |-> "HTTP_GET", path |-> <<"/","c">>, handler |-> "handle_close"],
       [method |-> "HTTP_GET", path |-> <<"/","l">>, handler |-> "handle_length"],
       [method |-> "HTTP_GET", path |-> <<"/","n">>, handler |-> "handle_none"] >>

\* router_route with no middleware: the first route of the request's method and
\* path runs; without one the response becomes 404 and -1 is returned
router_route(routes, req, res) ==
    With({i \in 1..Len(routes) : routes[i].method = req.method /\ routes[i].path = req.path},
         LAMBDA hits :
        IF hits = {}
        THEN [res |-> http_response_send_text(res, 404, <<"N","o","t"," ","F","o","u","n","d">>),
              rc |-> -1]
        ELSE [res |-> route_handler(routes[Min(hits)].handler, req, res), rc |-> 0])

(***************************************************************************)
(* The reactor's registration table (event_loop.c).  An event mask is the  *)
(* set of its flags; "events & EVENT_READ" is EVENT_READ \in events.       *)
(* Indices into handlers are those of the source, counted from 0.          *)
(***************************************************************************)
EVENT_READ == "EVENT_READ"
EVENT_WRITE == "EVENT_WRITE"
EVENT_ERROR == "EVENT_ERROR"

\* the listening socket's descriptor; connection c is served on descriptor c
socket_fd == 0

\* the size of the timers array
MAX_TIMERS == 3

\* a slot of the timers array as calloc leaves it
NoTimer == [id |-> 0, expiry |-> 0, callback |-> "NULL", user_data |-> 0, active |-> FALSE]

\* handler_count is Len(handlers).  timers is the whole array, with what was
\* left in the slots from timer_count on.  epoll_rejects holds the descriptors
\* that epoll_ctl refuses to add (regular files).  clobbered says that a store
\* went to timers[-1], that is, onto the fields of the loop before the array.
event_loop_create ==
    [handlers |-> <<>>, running |-> FALSE, next_timer_id |-> 1,
     timers |-> [i \in 0..(MAX_TIMERS - 1) |-> NoTimer], timer_count |-> 0,
     epoll_rejects |-> {}, clobbered |-> FALSE]

find_handler_index(lp, fd) ==
    With({i \in 1..Len(lp.handlers) : lp.handlers[i].fd = fd}, LAMBDA hits :
        IF hits = {} THEN -1 ELSE Min(hits) - 1)

\* a variant of event_loop_add_fd without the check for a handler already there
event_loop_add_fd_again(lp, fd, events, callback, user_data) ==
    IF fd < 0 \/ callback = "NULL" THEN [loop |-> lp, rc |-> -1]
    ELSE IF fd \in lp.epoll_rejects THEN [loop |-> lp, rc |-> -1]
    ELSE [loop |-> [lp EXCEPT !.handlers =
                        Append(@, [fd |-> fd, events |-> events, callback |-> callback,
                                   user_data |-> user_data, active |-> TRUE])],
          rc |-> 0]

\* callbacks are named by strings, the null function pointer by "NULL"
event_loop_add_fd(lp, fd, events, callback, user_data) ==
    IF fd < 0 \/ callback = "NULL" THEN [loop |-> lp, rc |-> -1]
    ELSE IF find_handler_index(lp, fd) >= 0 THEN [loop |-> lp, rc |-> -1]
    ELSE IF fd \in lp.epoll_rejects THEN [loop |-> lp, rc |-> -1]
    ELSE [loop |-> [lp EXCEPT !.handlers =
                        Append(@, [fd |-> fd, events |-> events, callback |-> callback,
                                   user_data |-> user_data, active |-> TRUE])],
          rc |-> 0]

\* a variant of event_loop_modify_fd that writes the mask into the first slot
event_loop_modify_fd_first(lp, fd, events) ==
    With(find_handler_index(lp, fd), LAMBDA idx :
        IF fd < 0 \/ idx < 0 THEN [loop |-> lp, rc |-> -1]
        ELSE [loop |-> [lp EXCEPT !.handlers[1].events = events], rc |-> 0])

\* a variant of event_loop_modify_fd that adds the events to those registered
event_loop_modify_fd_adds(lp, fd, events) ==
    With(find_handler_index(lp, fd), LAMBDA idx :
        IF fd < 0 \/ idx < 0 THEN [loop |-> lp, rc |-> -1]
        ELSE [loop |-> [lp EXCEPT !.handlers[idx + 1].events = @ \cup events], rc |-> 0])

event_loop_modify_fd(lp, fd, events) ==
    With(find_handler_index(lp, fd), LAMBDA idx :
        IF fd < 0 \/ idx < 0 THEN [loop |-> lp, rc |-> -1]
        ELSE [loop |-> [lp EXCEPT !.handlers[idx + 1].events = events], rc |-> 0])

\* a variant of event_loop_remove_fd that shrinks the table without moving
\* the last handler into the removed slot
event_loop_remove_fd_last(lp, fd) ==
    With(find_handler_index(lp, fd), LAMBDA idx :
    With(Len(lp.handlers), LAMBDA n :
        IF fd < 0 \/ idx < 0 THEN [loop |-> lp, rc |-> -1]
        ELSE [loop |-> [lp EXCEPT !.handlers = SubSeq(lp.handlers, 1, n - 1)], rc |-> 0]))

\* the removed slot takes the last handler and the table shrinks by one
event_loop_remove_fd(lp, fd) ==
    With(find_handler_index(lp, fd), LAMBDA idx :
    With(Len(lp.handlers), LAMBDA n :
        IF fd < 0 \/ idx < 0 THEN [loop |-> lp, rc |-> -1]
        ELSE [loop |-> [lp EXCEPT !.handlers =
                           SubSeq(IF idx < n - 1
                                  THEN [lp.handlers EXCEPT ![idx + 1] = lp.handlers[n]]
                                  ELSE lp.handlers, 1, n - 1)],
              rc |-> 0]))

handler_count(lp) == Len(lp.handlers)

\* a variant of event_loop_stop that leaves running as it is
event_loop_stop_ignored(lp) == lp

event_loop_stop(lp) == [lp EXCEPT !.running = FALSE]

(***************************************************************************)
(* Timers.  Time is counted in milliseconds; gettimeofday is the argument  *)
(* now.  The expiry of a timer is now + timeout_ms: the seconds and        *)
(* microseconds of the source, carried over as the source does, compare    *)
(* as this sum does.                                                       *)
(***************************************************************************)
EVENT_TIMEOUT == "EVENT_TIMEOUT"

\* a store to timers[timer_count] with timer_count below 0 lands outside the array
event_loop_add_timeout(lp, now, timeout_ms, callback, user_data) ==
    IF timeout_ms < 0 \/ callback = "NULL" THEN [loop |-> lp, rc |-> -1]
    ELSE IF lp.timer_count >= MAX_TIMERS THEN [loop |-> lp, rc |-> -1]
    ELSE IF lp.timer_count < 0
    THEN [loop |-> [lp EXCEPT !.clobbered = TRUE, !.timer_count = @ + 1], rc |-> lp.next_timer_id]
    ELSE [loop |-> [lp EXCEPT !.timers[lp.timer_count] =
                                  [id |-> lp.next_timer_id, expiry |-> now + timeout_ms,
                                   callback |-> callback, user_data |-> user_data,
                                   active |-> TRUE],
                              !.next_timer_id = @ + 1,
                              !.timer_count = @ + 1],
          rc |-> lp.next_timer_id]

\* the slots of the array in use
TimerSlots(lp) == 0..(lp.timer_count - 1)

\* slot i is given up: the last timer in use takes it and the count drops by one
timers_compact(lp, i) ==
    [lp EXCEPT !.timers = IF i < lp.timer_count - 1
                          THEN [@ EXCEPT ![i] = lp.timers[lp.timer_count - 1]]
                          ELSE @,
               !.timer_count = @ - 1]

\* a variant of event_loop_cancel_timeout that reports the timer cancelled
\* and leaves it in the array
event_loop_cancel_timeout_kept(lp, timer_id) ==
    With({i \in TimerSlots(lp) : lp.timers[i].id = timer_id /\ lp.timers[i].active},
         LAMBDA hits :
        IF hits = {} THEN [loop |-> lp, rc |-> -1]
        ELSE [loop |-> lp, rc |-> 0])

event_loop_cancel_timeout(lp, timer_id) ==
    With({i \in TimerSlots(lp) : lp.timers[i].id = timer_id /\ lp.timers[i].active},
         LAMBDA hits :
        IF hits = {} THEN [loop |-> lp, rc |-> -1]
        ELSE [loop |-> timers_compact([lp EXCEPT !.timers[Min(hits)].active = FALSE], Min(hits)),
              rc |-> 0])

\* -1 stands for no timeout: the backend blocks until a descriptor is ready
get_next_timeout(lp, now) ==
    IF lp.timer_count = 0 THEN -1
    ELSE With({IF lp.timers[i].expiry - now < 0 THEN 0 ELSE lp.timers[i].expiry - now :
                  i \in {k \in TimerSlots(lp) : lp.timers[k].active}}, LAMBDA waits :
             IF waits = {} THEN -1 ELSE Min(waits))

(***************************************************************************)
(* Sockets as the server sees them.  inbuf holds the bytes that arrived    *)
(* and were not read yet, fin says the peer finished sending, space is the *)
(* room left in the send buffer and wire the bytes the server has written. *)
(* fault is the I/O error the socket has met: "recv" makes recv fail,      *)
(* "send" makes send fail, "hup" makes both fail and is reported as an     *)
(* error event.  io_failed is the number of bytes on the wire when a call  *)
(* on the socket first failed, -1 before (kept for the properties).        *)
(***************************************************************************)
recv_fails(sock) == sock.fault \in {"recv", "hup"}

send_fails(sock) == sock.fault \in {"send", "hup"}

\* the socket after a call on it failed with an error other than EAGAIN and EINTR
io_failure(sock) == [sock EXCEPT !.io_failed = IF @ < 0 THEN Len(sock.wire) ELSE @]

\* recv(fd, buf, n, 0): the bytes read; 0 at end of stream, -1 when none is
\* there (EAGAIN; a blocking socket waits) or, with failed, on an I/O error
recv(sock, n) ==
    With(IF Len(sock.inbuf) < n THEN Len(sock.inbuf) ELSE n, LAMBDA k :
        IF recv_fails(sock)
        THEN [sock |-> io_failure(sock), bytes_read |-> -1, data |-> <<>>, failed |-> TRUE]
        ELSE IF k > 0
        THEN [sock |-> [sock EXCEPT !.inbuf = SubSeq(@, k + 1, Len(@))],
              bytes_read |-> k, data |-> SubSeq(sock.inbuf, 1, k), failed |-> FALSE]
        ELSE [sock |-> sock, bytes_read |-> IF sock.fin THEN 0 ELSE -1, data |-> <<>>,
              failed |-> FALSE])

\* send(fd, data, len, 0): as many bytes as the send buffer has room for;
\* -1 when it has none (EAGAIN on a non-blocking socket) or, with failed, on
\* an I/O error
send(sock, data) ==
    With(IF sock.space < Len(data) THEN sock.space ELSE Len(data), LAMBDA k :
        IF send_fails(sock) THEN [sock |-> io_failure(sock), sent |-> -1, failed |-> TRUE]
        ELSE IF sock.space = 0 THEN [sock |-> sock, sent |-> -1, failed |-> FALSE]
        ELSE [sock |-> [sock EXCEPT !.space = @ - k, !.wire = @ \o SubSeq(data, 1, k)],
              sent |-> k, failed |-> FALSE])

(***************************************************************************)
(* The reactor connection (async_connection_t) and its handlers.  A handler*)
(* works on w: the connection, its socket, the registration table, and the *)
(* record of what the connection was answered (hist, kept for the          *)
(* properties; the code has no such record).                               *)
(***************************************************************************)
free_async_connection(w) ==
    [w EXCEPT !.sock.state = IF w.conn.client_fd >= 0 THEN "closed" ELSE @,
              !.conn.client_fd = -1,
              !.conn.header_buf = NULL,
              !.conn.freed = TRUE,
              !.conn.frees = @ + 1]

\* a variant that frees the connection and leaves its descriptor registered
remove_and_free_registered(w, fd) == free_async_connection(w)

\* event_loop_remove_fd followed by free_async_connection, as every close path does
remove_and_free(w, fd) ==
    free_async_connection([w EXCEPT !.loop = event_loop_remove_fd(@, fd).loop])

\* a variant that takes the routing branch for a parser error as well
parser_result_branch_error_routes(result) ==
    IF result = PARSER_INCOMPLETE THEN "none" ELSE "route"

\* the if / else if / else of async_on_parser_result on the parser's result
parser_result_branch(result) ==
    CASE result = PARSER_ERROR -> "error"
      [] result = PARSER_COMPLETE -> "route"
      [] OTHER -> "none"

\* a variant that leaves the parser's keep-alive flag in force on the error branch
result_keep_alive_any_branch(branch, parser, res) ==
    parser.keep_alive /\ ~response_forces_close(res.headers)

\* the keep_alive local of async_on_parser_result
result_keep_alive(branch, parser, res) ==
    IF branch = "route"
    THEN parser.keep_alive /\ ~response_forces_close(res.headers)
    ELSE FALSE

\* one answered request, as the record keeps it
Answered(conn, sock, result, routed, res, header_buf, keep_alive) ==
    [routed |-> routed, pstate |-> conn.parser.state, presult |-> result,
     pkeep |-> conn.parser.keep_alive,
     method |-> conn.parser.req.method, path |-> conn.parser.req.path,
     latched |-> conn.parser.error_status, status |-> res.status,
     headers |-> res.headers, keep_alive |-> keep_alive,
     text |-> header_buf \o BodyBytes(res), wire_before |-> Len(sock.wire)]

async_on_parser_result(w, fd, result) ==
    With(parser_result_branch(result), LAMBDA branch :
    IF branch = "none" THEN [w |-> w, ok |-> TRUE]
    ELSE
    With(w.conn, LAMBDA conn :
    With(IF branch = "error"
         THEN http_response_send_text(
                  conn.response,
                  IF conn.parser.error_status # 0 THEN conn.parser.error_status ELSE 400,
                  IF conn.parser.error_message # NULL THEN conn.parser.error_message
                  ELSE <<"B","a","d"," ","R","e","q","u","e","s","t">>)
         ELSE With(router_route(router, conn.parser.req, conn.response), LAMBDA routed :
                  IF routed.rc < 0
                  THEN http_response_send_text(routed.res, 404,
                                               <<"N","o","t"," ","F","o","u","n","d">>)
                  ELSE routed.res),
         LAMBDA res :
    With(result_keep_alive(branch, conn.parser, res), LAMBDA keep_alive :
    With(serialize_response(res, keep_alive), LAMBDA ser :
    With(event_loop_modify_fd(w.loop, fd, {EVENT_WRITE}), LAMBDA md :
    With([w EXCEPT !.conn = [conn EXCEPT !.response = ser.res,
                                         !.header_buf = ser.header_buf,
                                         !.header_len = Len(ser.header_buf),
                                         !.header_sent = 0, !.body_sent = 0,
                                         !.keep_alive = keep_alive,
                                         !.closing = ~keep_alive,
                                         !.response_ready = TRUE],
                    !.loop = md.loop,
                    !.hist = Append(@, Answered(conn, w.sock, result, branch = "route",
                                                ser.res, ser.header_buf, keep_alive))],
         LAMBDA w1 :
        IF md.rc < 0 THEN [w |-> remove_and_free(w1, fd), ok |-> FALSE]
        ELSE [w |-> w1, ok |-> TRUE])))))))

\* what a sending loop hands back: w after it, and whether the handler returns
Sent(w, returns) == [w |-> w, returns |-> returns]

\* a variant of the header loop that counts the whole header block as sent
\* whatever send() took of it
send_header_counted_whole(w) ==
    With(w.conn, LAMBDA conn :
    IF conn.header_sent >= conn.header_len THEN Sent(w, FALSE)
    ELSE
    With(send(w.sock, SubSeq(conn.header_buf, conn.header_sent + 1, conn.header_len)),
         LAMBDA s :
        Sent([w EXCEPT !.sock = s.sock, !.conn.header_sent = conn.header_len], FALSE)))

\* the header loop of async_write_handler: a send that takes only part of the
\* rest is followed by one that finds no room, on which the handler returns
send_header(w) ==
    With(w.conn, LAMBDA conn :
    IF conn.header_sent >= conn.header_len THEN Sent(w, FALSE)
    ELSE
    With(send(w.sock, SubSeq(conn.header_buf, conn.header_sent + 1, conn.header_len)),
         LAMBDA s :
    With(IF s.sent < 0 THEN 0 ELSE s.sent, LAMBDA got :
        IF s.failed THEN Sent(remove_and_free([w EXCEPT !.sock = s.sock], conn.client_fd), TRUE)
        ELSE Sent([w EXCEPT !.sock = s.sock, !.conn.header_sent = @ + got],
                  conn.header_sent + got < conn.header_len))))

\* the body loop of async_write_handler
send_body(w) ==
    With(w.conn, LAMBDA conn :
    With(conn.response, LAMBDA res :
    IF conn.body_sent >= res.body_length THEN Sent(w, FALSE)
    ELSE IF res.body = NULL \/ res.body_length = 0
    THEN Sent([w EXCEPT !.conn.body_sent = res.body_length], FALSE)
    ELSE
    With(res.body_length - conn.body_sent, LAMBDA remaining :
    With(send(w.sock, SubSeq(res.body, conn.body_sent + 1, res.body_length)), LAMBDA s :
    With(IF s.sent < 0 THEN 0 ELSE s.sent, LAMBDA got :
        IF s.failed THEN Sent(remove_and_free([w EXCEPT !.sock = s.sock], conn.client_fd), TRUE)
        ELSE Sent([w EXCEPT !.sock = s.sock, !.conn.body_sent = @ + got],
                  got < remaining))))))

\* the for (;;) of async_write_handler: send the pending response; when it is
\* out, close or reset for the next request and answer what is already buffered
RECURSIVE async_write_loop(_, _)
async_write_loop(w, fd) ==
    With(send_header(w), LAMBDA h :
    IF h.returns THEN h.w
    ELSE
    With(send_body(h.w), LAMBDA b :
    IF b.returns THEN b.w
    ELSE
    With(b.w.conn, LAMBDA conn :
    IF conn.header_sent < conn.header_len \/ conn.body_sent < conn.response.body_length
    THEN b.w
    ELSE
    With([conn EXCEPT !.response.sent = TRUE, !.header_buf = NULL,
                      !.header_len = 0, !.response_ready = FALSE], LAMBDA c1 :
    IF ~(c1.keep_alive /\ ~c1.closing) THEN remove_and_free([b.w EXCEPT !.conn = c1], fd)
    ELSE
    With([c1 EXCEPT !.response = http_response_create,
                    !.parser = http_parser_reset(@, http_request_create, TRUE),
                    !.keep_alive = FALSE, !.closing = FALSE,
                    !.header_sent = 0, !.body_sent = 0], LAMBDA c2 :
    With(IF c2.parser.buffer # <<>> THEN http_parser_execute(c2.parser, <<>>)
         ELSE Res(c2.parser, PARSER_INCOMPLETE), LAMBDA r :
    With([b.w EXCEPT !.conn = [c2 EXCEPT !.parser = r.p]], LAMBDA w3 :
    IF r.result = PARSER_INCOMPLETE
    THEN With(event_loop_modify_fd(w3.loop, fd, {EVENT_READ}), LAMBDA md :
             IF md.rc < 0 THEN remove_and_free(w3, fd) ELSE [w3 EXCEPT !.loop = md.loop])
    ELSE With(async_on_parser_result(w3, fd, r.result), LAMBDA o :
             IF ~o.ok THEN o.w
             ELSE IF ~o.w.conn.response_ready \/ o.w.conn.header_buf = NULL THEN o.w
             ELSE async_write_loop(o.w, fd)))))))))

async_write_handler(w, fd, events) ==
    IF EVENT_ERROR \in events THEN remove_and_free(w, fd)
    ELSE IF EVENT_WRITE \notin events THEN w
    ELSE IF ~w.conn.response_ready \/ w.conn.header_buf = NULL THEN w
    ELSE async_write_loop(w, fd)

\* what the recv loop hands back
Read(w, result, freed) == [w |-> w, result |-> result, freed |-> freed]

\* the recv loop of async_read_handler
RECURSIVE async_read_loop(_, _, _)
async_read_loop(w, fd, result) ==
    IF result # PARSER_INCOMPLETE THEN Read(w, result, FALSE)
    ELSE
    With(recv(w.sock, READ_BUFFER_SIZE), LAMBDA rc :
    IF rc.bytes_read < 0 /\ rc.failed
    THEN Read(remove_and_free([w EXCEPT !.sock = rc.sock], fd), result, TRUE)
    ELSE IF rc.bytes_read < 0 THEN Read(w, result, FALSE)
    ELSE IF rc.bytes_read = 0 THEN Read(remove_and_free(w, fd), result, TRUE)
    ELSE
    With(http_parser_execute(w.conn.parser, rc.data), LAMBDA r :
    With([w EXCEPT !.sock = rc.sock, !.conn.parser = r.p], LAMBDA w1 :
        async_read_loop(w1, fd, r.result))))

async_read_handler(w, fd, events) ==
    IF EVENT_ERROR \in events THEN remove_and_free(w, fd)
    ELSE IF EVENT_READ \notin events THEN w
    ELSE IF ~w.conn.parser_initialized \/ w.conn.response_ready THEN w
    ELSE
    With(IF w.conn.parser.buffer # <<>> THEN http_parser_execute(w.conn.parser, <<>>)
         ELSE Res(w.conn.parser, PARSER_INCOMPLETE), LAMBDA r0 :
    With([w EXCEPT !.conn.parser = r0.p], LAMBDA w0 :
    With(async_read_loop(w0, fd, r0.result), LAMBDA rl :
    IF rl.freed THEN rl.w
    ELSE IF rl.result = PARSER_INCOMPLETE THEN rl.w
    ELSE
    With(async_on_parser_result(rl.w, fd, rl.result), LAMBDA o :
        IF ~o.ok THEN o.w
        ELSE IF o.w.conn.response_ready THEN async_write_handler(o.w, fd, {EVENT_WRITE})
        ELSE o.w))))

\* the connection context async_accept_handler builds for an accepted descriptor
async_connection(client_fd) ==
    [kind |-> "async", client_fd |-> client_fd,
     parser |-> http_parser_init(http_request_create),
     response |-> http_response_create,
     header_buf |-> NULL, header_len |-> 0, header_sent |-> 0, body_sent |-> 0,
     parser_initialized |-> TRUE, response_ready |-> FALSE,
     keep_alive |-> FALSE, closing |-> FALSE, freed |-> FALSE, frees |-> 0]

\* async_accept_handler for one readiness event of the listening socket: one
\* accept(); client_fd is what accept returned, -1 when nobody is waiting
async_accept_handler(w, fd, events, client_fd) ==
    IF EVENT_ERROR \in events \/ EVENT_READ \notin events \/ client_fd < 0 THEN w
    ELSE
    With([w EXCEPT !.conn = async_connection(client_fd), !.sock.state = "open"], LAMBDA w1 :
    With(event_loop_add_fd(w.loop, client_fd, {EVENT_READ}, "async_read_handler", client_fd),
         LAMBDA add :
        IF add.rc < 0 THEN free_async_connection(w1)
        ELSE [w1 EXCEPT !.loop = add.loop]))

(***************************************************************************)
(* The threaded connection (connection_t and the locals of                 *)
(* handle_connection).  The thread runs until recv finds nothing to read   *)
(* or send finds no room; pc says in which of the two calls it waits, and  *)
(* out holds the bytes send_all has still to write.                        *)
(***************************************************************************)
connection(client_fd) ==
    [kind |-> "thread", client_fd |-> client_fd,
     parser |-> http_parser_init(http_request_create),
     response |-> NULL, parser_initialized |-> FALSE,
     keep_alive |-> FALSE, connection_open |-> TRUE,
     pc |-> "start", out |-> <<>>, freed |-> FALSE]

\* after the while loop of handle_connection: close(client_fd); free(conn)
thread_exit(w) ==
    [w EXCEPT !.sock.state = "closed", !.conn.connection_open = FALSE,
              !.conn.response = NULL, !.conn.pc = "done", !.conn.freed = TRUE]

\* send_all on a blocking socket, as far as the send buffer takes the bytes
\* (the header block and the body are written by two calls, one after the other)
send_all(w) ==
    IF w.conn.out = <<>> THEN w
    ELSE
    With(send(w.sock, w.conn.out), LAMBDA s :
    With(IF s.sent < 0 THEN 0 ELSE s.sent, LAMBDA k :
        IF s.failed THEN [w EXCEPT !.sock = s.sock, !.conn.out = <<>>]
        ELSE [w EXCEPT !.sock = s.sock, !.conn.out = SubSeq(@, k + 1, Len(@))]))

\* send_response(client_fd, res, keep_alive): serialize and hand to send_all
send_response(w, res, keep_alive, result, routed) ==
    IF res.sent THEN w
    ELSE
    With(serialize_response(res, keep_alive), LAMBDA ser :
        [w EXCEPT !.conn.out = ser.header_buf \o BodyBytes(ser.res),
                  !.hist = Append(@, Answered(w.conn, w.sock, result, routed, ser.res,
                                              ser.header_buf, keep_alive))])

\* send_error_response: a fresh response with the message as text, never keep-alive
send_error_response(w, status, message, result) ==
    With(http_response_send_text(http_response_create, status,
                                 IF message # NULL THEN message ELSE <<>>), LAMBDA res :
        send_response(w, res, FALSE, result, FALSE))

RECURSIVE handle_connection_iteration(_)
RECURSIVE handle_connection_recv(_, _)
RECURSIVE handle_connection_send(_)

\* the top of the while (connection_open) loop, up to the recv loop
handle_connection_iteration(w) ==
    With(w.conn, LAMBDA conn :
    With(IF ~conn.parser_initialized THEN http_parser_init(http_request_create)
         ELSE http_parser_reset(conn.parser, http_request_create, TRUE), LAMBDA p0 :
    With(IF p0.buffer # <<>> THEN http_parser_execute(p0, <<>>)
         ELSE Res(p0, PARSER_INCOMPLETE), LAMBDA r :
    With([w EXCEPT !.conn = [conn EXCEPT !.response = http_response_create,
                                         !.parser_initialized = TRUE,
                                         !.keep_alive = FALSE, !.parser = r.p]], LAMBDA w1 :
        handle_connection_recv(w1, r.result)))))

\* the recv loop and what follows it, up to the call of send_response
handle_connection_recv(w, result) ==
    With(w.conn, LAMBDA conn :
    IF result = PARSER_INCOMPLETE
    THEN With(recv(w.sock, READ_BUFFER_SIZE), LAMBDA rc :
             IF rc.bytes_read < 0 /\ rc.failed
             THEN With(send_error_response(
                           [w EXCEPT !.sock = rc.sock], 500,
                           <<"S","o","c","k","e","t"," ","r","e","a","d"," ","e","r","r","o","r">>,
                           result), LAMBDA e :
                  With([e EXCEPT !.conn.connection_open = FALSE], LAMBDA w1 :
                      handle_connection_send(w1)))
             ELSE IF rc.bytes_read < 0 THEN [w EXCEPT !.conn.pc = "recv"]
             ELSE IF rc.bytes_read = 0 THEN thread_exit(w)
             ELSE With(http_parser_execute(conn.parser, rc.data), LAMBDA r :
                  With([w EXCEPT !.sock = rc.sock, !.conn.parser = r.p], LAMBDA w1 :
                      handle_connection_recv(w1, r.result))))
    ELSE IF result = PARSER_ERROR
    THEN With(send_error_response(
                  w, IF conn.parser.error_status # 0 THEN conn.parser.error_status ELSE 400,
                  conn.parser.error_message, result), LAMBDA e :
         With([e EXCEPT !.conn.connection_open = FALSE], LAMBDA w1 :
             handle_connection_send(w1)))
    ELSE With(router_route(router, conn.parser.req, conn.response), LAMBDA routed :
         With(IF routed.rc < 0
              THEN http_response_send_text(routed.res, 404,
                                           <<"N","o","t"," ","F","o","u","n","d">>)
              ELSE routed.res, LAMBDA res :
         With(conn.parser.keep_alive /\ ~response_forces_close(res.headers),
              LAMBDA keep_alive :
         With(send_response([w EXCEPT !.conn.response = res], res, keep_alive, result, TRUE),
              LAMBDA sr :
         With([sr EXCEPT !.conn.keep_alive = keep_alive,
                         !.conn.connection_open = keep_alive], LAMBDA w1 :
             handle_connection_send(w1)))))))

\* inside send_response: send_all until everything is written, then the end of
\* the iteration
handle_connection_send(w) ==
    With(send_all(w), LAMBDA s :
        IF s.conn.out # <<>> THEN [s EXCEPT !.conn.pc = "send"]
        ELSE IF ~s.conn.connection_open THEN thread_exit(s)
        ELSE handle_connection_iteration(s))

(***************************************************************************)
(* The running server and its clients.                                     *)
(*   async_mode  http_server's mode: the reactor, or a thread per client   *)
(*   conns[c]    the connection context of client c, once accepted         *)
(*   socks[c]    client c's socket, with what the client plans to send     *)
(*   backlog     the clients that connected and were not accepted yet      *)
(*   loop        the reactor's registration table                          *)
(*   hist[c]     the requests answered on connection c, in order           *)
(*   last        the descriptor and events of the callback or thread step  *)
(*               taken last, with the bytes on its wire before the step    *)
(***************************************************************************)
Conns == {1, 2}

\* room in a socket's send buffer when the client has read everything
SendBufferSize == 100

\* the size of the pieces a client may cut a request into
SendPiece == 10

RequestLine(method, path) ==
    method \o <<" ">> \o path \o <<" ","H","T","T","P","/","1",".","1">> \o CRLF

HostLine == HeaderLine(<<"H","o","s","t">>, <<"x">>)

\* the requests clients send: their bytes, and the path they ask for
ReqA == [text |-> RequestLine(<<"G","E","T">>, <<"/","a">>) \o HostLine \o CRLF,
         path |-> <<"/","a">>, error |-> FALSE]
ReqN == [text |-> RequestLine(<<"G","E","T">>, <<"/","n">>) \o HostLine \o CRLF,
         path |-> <<"/","n">>, error |-> FALSE]
ReqZ == [text |-> RequestLine(<<"G","E","T">>, <<"/","z">>) \o HostLine \o CRLF,
         path |-> <<"/","z">>, error |-> FALSE]
ReqC == [text |-> RequestLine(<<"G","E","T">>, <<"/","c">>) \o HostLine \o CRLF,
         path |-> <<"/","c">>, error |-> FALSE]
ReqE == [text |-> RequestLine(<<"P","O","S","T">>, <<"/","e">>) \o HostLine
                  \o HeaderLine(<<"C","o","n","t","e","n","t","-","L","e","n","g","t","h">>,
                                <<"2">>)
                  \o CRLF \o <<"a","b">>,
         path |-> <<"/","e">>, error |-> FALSE]
ReqAClose == [text |-> RequestLine(<<"G","E","T">>, <<"/","a">>) \o HostLine
                       \o HeaderLine(<<"C","o","n","n","e","c","t","i","o","n">>,
                                     <<"c","l","o","s","e">>)
                       \o CRLF,
              path |-> <<"/","a">>, error |-> FALSE]
ReqL == [text |-> RequestLine(<<"G","E","T">>, <<"/","l">>) \o HostLine \o CRLF,
         path |-> <<"/","l">>, error |-> FALSE]
ReqLClose == [text |-> RequestLine(<<"G","E","T">>, <<"/","l">>) \o HostLine
                       \o HeaderLine(<<"C","o","n","n","e","c","t","i","o","n">>,
                                     <<"c","l","o","s","e">>)
                       \o CRLF,
              path |-> <<"/","l">>, error |-> FALSE]
\* HTTP/1.1 without Host: a parser error (400 Missing Host header)
ReqNoHost == [text |-> RequestLine(<<"G","E","T">>, <<"/","a">>) \o CRLF,
              path |-> <<"/","a">>, error |-> TRUE]

\* what the clients of one run send: a script for connection 1 and one for 2
\* (an empty script: that client never connects)
Scripts ==
    { << <<ReqA, ReqN, ReqAClose>>, <<>> >>,
      << <<ReqN, ReqA, ReqNoHost, ReqA>>, <<>> >>,
      << <<ReqZ, ReqC, ReqA>>, <<>> >>,
      << <<ReqL, ReqLClose>>, <<>> >>,
      << <<ReqA, ReqN>>, <<ReqE, ReqNoHost>> >> }

RECURSIVE Texts(_)
Texts(reqs) == IF reqs = <<>> THEN <<>> ELSE <<Head(reqs).text>> \o Texts(Tail(reqs))

NoEvent == [fd |-> -1, events |-> {}, wire_before |-> 0, pending |-> FALSE]

\* the server started, in either mode, before clients that follow one of the scripts
ServerInit(scripts) ==
    /\ async_mode \in BOOLEAN
    /\ \E script \in scripts :
          socks = [c \in Conns |->
                      [state |-> "idle", script |-> script[c], tosend |-> Texts(script[c]),
                       inbuf |-> <<>>, fin |-> FALSE, space |-> SendBufferSize,
                       wire |-> <<>>, fault |-> "none", io_failed |-> -1]]
    /\ conns = [c \in Conns |-> [kind |-> "none", freed |-> FALSE]]
    /\ backlog = <<>>
    /\ loop = IF async_mode
              THEN [event_loop_add_fd(event_loop_create, socket_fd, {EVENT_READ},
                                      "async_accept_handler", "server").loop
                       EXCEPT !.running = TRUE]
              ELSE event_loop_create
    /\ hist = [c \in Conns |-> <<>>]
    /\ last = NoEvent
    /\ feed_desc = <<>> /\ feed_rest = <<>> /\ feed_parser = <<>> /\ feed_result = <<>>
    /\ fresh_parser = <<>> /\ fresh_result = <<>>
    /\ ElIdle /\ hdr = <<>> /\ LibIdle

Init == ServerInit(Scripts)

\* a variant in which every callback works on the socket of the first connection
World_first_socket(c, fd) ==
    [conn |-> conns[c], sock |-> socks[Min(Conns)], loop |-> loop, hist |-> hist[c]]

\* what a handler or thread works on: the connection context c it was given
\* and the socket behind the descriptor fd it was called for; and its write-back
World(c, fd) == [conn |-> conns[c], sock |-> socks[fd], loop |-> loop, hist |-> hist[c]]

Becomes(c, fd, w, events) ==
    /\ conns' = [conns EXCEPT ![c] = w.conn]
    /\ socks' = [socks EXCEPT ![fd] = w.sock]
    /\ loop' = w.loop
    /\ hist' = [hist EXCEPT ![c] = w.hist]
    /\ last' = [fd |-> fd, events |-> events, wire_before |-> Len(socks[fd].wire),
                pending |-> conns[c].kind = "async" /\ conns[c].response_ready]

(* Clients *)
ClientConnect(c) ==
    /\ socks[c].state = "idle" /\ socks[c].script # <<>>
    /\ socks' = [socks EXCEPT ![c].state = "queued"]
    /\ backlog' = Append(backlog, c)
    /\ last' = NoEvent
    /\ UNCHANGED <<async_mode, conns, loop, hist, feed_vars, el_vars, hdr, lib_vars>>

\* the client's next bytes arrive: a piece of its next request, the rest of
\* that request, or everything it has still to send
ClientSend(c) ==
    /\ socks[c].state \in {"queued", "open"}
    /\ socks[c].tosend # <<>>
    /\ \E rest \in {Concat(socks[c].tosend)}, head \in {Head(socks[c].tosend)} :
       \E len \in {SendPiece, Len(head), Len(rest)} :
          /\ len <= Len(head) \/ len = Len(rest)
          /\ socks' = [socks EXCEPT
                          ![c].tosend = IF len < Len(head)
                                        THEN <<SubSeq(head, len + 1, Len(head))>> \o Tail(@)
                                        ELSE IF len = Len(head) THEN Tail(@)
                                        ELSE <<>>,
                          ![c].inbuf = @ \o SubSeq(rest, 1, len)]
    /\ last' = NoEvent
    /\ UNCHANGED <<async_mode, conns, backlog, loop, hist, feed_vars, el_vars, hdr, lib_vars>>

\* the client has sent everything and shuts its sending side down
ClientShutdown(c) ==
    /\ socks[c].state \in {"queued", "open"}
    /\ socks[c].tosend = <<>> /\ ~socks[c].fin
    /\ socks' = [socks EXCEPT ![c].fin = TRUE]
    /\ last' = NoEvent
    /\ UNCHANGED <<async_mode, conns, backlog, loop, hist, feed_vars, el_vars, hdr, lib_vars>>

\* the client reads what the server wrote: the send buffer has room again
ClientRecv(c) ==
    /\ socks[c].state = "open"
    /\ socks[c].space < SendBufferSize
    /\ socks' = [socks EXCEPT ![c].space = SendBufferSize]
    /\ last' = NoEvent
    /\ UNCHANGED <<async_mode, conns, backlog, loop, hist, feed_vars, el_vars, hdr, lib_vars>>

(* The reactor: event_loop_run hands one ready event to the registered callback *)
\* the flags event_loop_run builds for a descriptor: what is ready among what
\* the registration asks for
EventFlags(events, readable, writable) ==
    ((IF readable THEN {EVENT_READ} ELSE {}) \cup (IF writable THEN {EVENT_WRITE} ELSE {}))
        \cap events

\* the flags for a client socket: a call that would fail does not wait, and a
\* hang-up is reported whatever the registration asks for
SocketFlags(events, sock) ==
    EventFlags(events, sock.inbuf # <<>> \/ sock.fin \/ recv_fails(sock),
               sock.space > 0 \/ send_fails(sock))
        \cup (IF sock.fault = "hup" THEN {EVENT_ERROR} ELSE {})

\* the listening socket is ready: async_accept_handler accepts one client
AcceptReady ==
    /\ async_mode /\ loop.running
    /\ \E idx \in {find_handler_index(loop, socket_fd)} :
          /\ idx >= 0
          /\ \E h \in {loop.handlers[idx + 1]} :
                /\ h.active
                /\ h.callback = "async_accept_handler"
                /\ \E flags \in {EventFlags(h.events, backlog # <<>>, FALSE)} :
                      /\ flags # {}
                      /\ \E c \in {Head(backlog)} :
                         \E w \in {async_accept_handler(World(c, c), socket_fd, flags, c)} :
                            Becomes(c, c, w, flags)
    /\ backlog' = Tail(backlog)
    /\ UNCHANGED <<async_mode, feed_vars, el_vars, hdr, lib_vars>>

\* a client descriptor is ready: its registered callback runs
ClientReady(c) ==
    /\ async_mode /\ loop.running
    /\ socks[c].state = "open"
    /\ \E idx \in {find_handler_index(loop, c)} :
          /\ idx >= 0
          /\ \E h \in {loop.handlers[idx + 1]} :
                /\ h.active
                /\ \E flags \in {SocketFlags(h.events, socks[c])} :
                      /\ flags # {}
                      /\ \E w0 \in {World(h.user_data, c)} :
                         \E w \in {CASE h.callback = "async_read_handler" ->
                                            async_read_handler(w0, c, flags)
                                      [] h.callback = "async_write_handler" ->
                                            async_write_handler(w0, c, flags)} :
                            Becomes(h.user_data, c, w, flags)
    /\ UNCHANGED <<async_mode, backlog, feed_vars, el_vars, hdr, lib_vars>>

(* Threads *)
\* accept_connections accepts a client and starts its handle_connection thread,
\* which runs until it has to wait
AcceptThread ==
    /\ ~async_mode
    /\ backlog # <<>>
    /\ \E c \in {Head(backlog)} :
       \E w0 \in {[World(c, c) EXCEPT !.conn = connection(c), !.sock.state = "open"]} :
       \E w \in {handle_connection_iteration(w0)} :
          Becomes(c, c, w, {})
    /\ backlog' = Tail(backlog)
    /\ UNCHANGED <<async_mode, feed_vars, el_vars, hdr, lib_vars>>

\* recv returns in a waiting thread
ThreadRecv(c) ==
    /\ conns[c].kind = "thread" /\ conns[c].pc = "recv"
    /\ socks[c].inbuf # <<>> \/ socks[c].fin \/ recv_fails(socks[c])
    /\ \E w0 \in {World(c, c)} :
       \E w \in {handle_connection_recv(w0, PARSER_INCOMPLETE)} :
          Becomes(c, c, w, {})
    /\ UNCHANGED <<async_mode, backlog, feed_vars, el_vars, hdr, lib_vars>>

\* send returns in a waiting thread
ThreadSend(c) ==
    /\ conns[c].kind = "thread" /\ conns[c].pc = "send"
    /\ socks[c].space > 0 \/ send_fails(socks[c])
    /\ \E w0 \in {World(c, c)} :
       \E w \in {handle_connection_send(w0)} :
          Becomes(c, c, w, {})
    /\ UNCHANGED <<async_mode, backlog, feed_vars, el_vars, hdr, lib_vars>>

Next ==
    \/ \E c \in Conns : ClientConnect(c)
    \/ \E c \in Conns : ClientSend(c)
    \/ \E c \in Conns : ClientShutdown(c)
    \/ \E c \in Conns : ClientRecv(c)
    \/ AcceptReady
    \/ \E c \in Conns : ClientReady(c)
    \/ AcceptThread
    \/ \E c \in Conns : ThreadRecv(c)
    \/ \E c \in Conns : ThreadSend(c)

Spec == Init /\ [][Next]_vars

(***************************************************************************)
(* The server with I/O errors: besides the steps of Next, a socket the     *)
(* server holds may meet an error (one per socket), after which recv, send *)
(* or both fail on it.                                                     *)
(***************************************************************************)
SocketFault(c, fault) ==
    /\ socks[c].state = "open"
    /\ socks[c].fault = "none"
    /\ socks' = [socks EXCEPT ![c].fault = fault]
    /\ last' = NoEvent
    /\ UNCHANGED <<async_mode, conns, backlog, loop, hist, feed_vars, el_vars, hdr, lib_vars>>

NextFault ==
    \/ Next
    \/ \E c \in Conns : \E fault \in {"recv", "send", "hup"} : SocketFault(c, fault)

\* one client, sending two requests on a connection the first answer keeps open
FaultScripts == { << <<ReqA, ReqN>>, <<>> >> }

InitFault == ServerInit(FaultScripts)

SpecFault == InitFault /\ [][NextFault]_vars

(***************************************************************************)
(* Claims about the running server (checked under Spec)                    *)
(***************************************************************************)
\* the bytes of the answers recorded in h, in order
RECURSIVE Written(_)
Written(h) == IF h = <<>> THEN <<>> ELSE Head(h).text \o Written(Tail(h))

\* C1: the router is invoked for a request only when http_parser_execute has
\* returned PARSER_COMPLETE for it and the parser is in its COMPLETE state, in
\* threaded and in reactor mode, and never once the connection's parser has
\* reported an error.
C1_RoutedOnlyWhenComplete ==
    \A c \in Conns : \A i \in 1..Len(hist[c]) :
        hist[c][i].routed
        => /\ hist[c][i].presult = PARSER_COMPLETE
           /\ hist[c][i].pstate = "COMPLETE"
           /\ \A j \in 1..(i - 1) : hist[c][j].presult # PARSER_ERROR

\* a reactor connection on which a request was routed and a later one was
\* answered for a parser error
C1_Witness ==
    \E c \in Conns :
        /\ async_mode
        /\ Len(hist[c]) >= 2
        /\ hist[c][1].routed
        /\ hist[c][Len(hist[c])].presult = PARSER_ERROR

\* C2: on a connection, when request N+1 is handed to the router (or answered
\* for an error), every header and body byte of responses 1..N is already
\* written to the socket; requests are answered in the order the client sent
\* them.
C2_NextAfterPreviousSent ==
    \A c \in Conns : \A i \in 1..Len(hist[c]) :
        /\ hist[c][i].wire_before = Len(Written(SubSeq(hist[c], 1, i - 1)))
        /\ i <= Len(socks[c].script)
        /\ hist[c][i].routed => hist[c][i].path = socks[c].script[i].path

\* a reactor callback that found nothing written yet and answered two requests,
\* which arrived pipelined
C2_Witness ==
    \E c \in Conns :
        /\ async_mode
        /\ last.fd = c /\ last.wire_before = 0
        /\ Len(hist[c]) >= 2
        /\ hist[c][2].routed

\* C3: when a write-readiness event is delivered for a reactor connection
\* whose response is partly unsent, sending resumes: the callback writes
\* further bytes of the response.
C3_WriteReadyResumes ==
    (last.fd \in Conns /\ EVENT_WRITE \in last.events /\ last.pending)
    => Len(socks[last.fd].wire) > last.wire_before

\* C4: a parser error is answered by one response, which carries the status
\* the parser latched and Connection: close; it is the connection's last
\* answer, no request is routed after it, and the connection is closed exactly
\* when the response is written out.
C4_ParserErrorAnswer ==
    \A c \in Conns : \A i \in 1..Len(hist[c]) :
        hist[c][i].presult = PARSER_ERROR
        => /\ i = Len(hist[c])
           /\ ~hist[c][i].routed
           /\ hist[c][i].latched # 0
           /\ hist[c][i].status = hist[c][i].latched
           /\ IsPrefix(<<"H","T","T","P","/","1",".","1"," ">>
                           \o Decimal(hist[c][i].latched) \o <<" ">>,
                       hist[c][i].text)
           /\ ~hist[c][i].keep_alive
           /\ strstr(hist[c][i].text,
                     CRLF \o <<"C","o","n","n","e","c","t","i","o","n",":"," ",
                               "c","l","o","s","e">> \o CRLF)
           /\ IsPrefix(socks[c].wire, Written(hist[c]))
           /\ (socks[c].state = "closed") = (socks[c].wire = Written(hist[c]))

\* a connection closed after its error answer although the failed request was
\* HTTP/1.1 (keep-alive by default) and pipelined bytes were still buffered
C4_Witness ==
    \E c \in Conns :
        /\ hist[c] # <<>>
        /\ hist[c][Len(hist[c])].presult = PARSER_ERROR
        /\ socks[c].state = "closed"
        /\ conns[c].parser.keep_alive
        /\ conns[c].parser.buffer # <<>>

\* what connection c's client was owed so far: answer i is for its request i
C5_OwnAnswers(c) ==
    /\ Len(hist[c]) <= Len(socks[c].script)
    /\ \A i \in 1..Len(hist[c]) :
          /\ hist[c][i].routed = ~socks[c].script[i].error
          /\ hist[c][i].path = socks[c].script[i].path
    /\ IsPrefix(socks[c].wire, Written(hist[c]))
    /\ hist[c] # <<>>
          => Len(socks[c].wire) >= Len(Written(SubSeq(hist[c], 1, Len(hist[c]) - 1)))

\* C5: with several connections served at once, the bytes written to each
\* connection are the answers to its own requests, in request order, each
\* written out before the next begins; and a step taken for one descriptor
\* leaves the bytes written to every other connection as they were.
C5_OwnBytesOnly ==
    /\ [](\A c \in Conns : C5_OwnAnswers(c))
    /\ [][\A c \in Conns : last'.fd # c => socks'[c].wire = socks[c].wire]_vars

\* two reactor connections answered side by side, one of them to its end
C5_Witness ==
    /\ async_mode
    /\ \A c \in Conns : Len(hist[c]) = 2 /\ socks[c].wire = Written(hist[c])
    /\ \E c \in Conns : socks[c].state = "closed"

(***************************************************************************)
(* A response as a client reads it off the wire                            *)
(***************************************************************************)
\* where n first occurs in h (1-based), 0 when it does not
FindSeq(h, n) ==
    LET hits == {i \in 1..(Len(h) - Len(n) + 1) : SubSeq(h, i, i + Len(n) - 1) = n}
    IN IF hits = {} THEN 0 ELSE Min(hits)

RECURSIVE SplitLines(_)
SplitLines(s) ==
    IF s = <<>> THEN <<>>
    ELSE IF find_crlf(s) < 0 THEN <<s>>
    ELSE <<SubSeq(s, 1, find_crlf(s))>> \o SplitLines(SubSeq(s, find_crlf(s) + 3, Len(s)))

\* the header lines of a response: what lies between its status line and its blank line
ResponseHeaderLines(text) ==
    Tail(SplitLines(SubSeq(text, 1, FindSeq(text, CRLF \o CRLF) - 1)))

\* the body of a response: what follows its blank line
ResponseBody(text) == SubSeq(text, FindSeq(text, CRLF \o CRLF) + 4, Len(text))

\* the values the header lines give the field of the (lower-case) name
FieldValues(lines, name_lower) ==
    {SubSeq(lines[i], Len(name_lower) + 3, Len(lines[i])) :
        i \in {k \in 1..Len(lines) :
                  /\ Len(lines[k]) >= Len(name_lower) + 2
                  /\ lowercase_dup(SubSeq(lines[k], 1, Len(name_lower) + 2))
                       = name_lower \o <<":"," ">>}}

\* C14: every response the server writes, in either mode, carries one
\* Content-Length header whose value is the number of body bytes written
\* after the header block, whatever headers the handler set; the bytes on the
\* wire are these responses, one after the other.
C14_ContentLengthIsBodyLength ==
    \A c \in Conns :
        /\ IsPrefix(socks[c].wire, Written(hist[c]))
        /\ \A i \in 1..Len(hist[c]) :
              /\ FindSeq(hist[c][i].text, CRLF \o CRLF) > 0
              /\ FieldValues(ResponseHeaderLines(hist[c][i].text),
                             <<"c","o","n","t","e","n","t","-","l","e","n","g","t","h">>)
                    = {Decimal(Len(ResponseBody(hist[c][i].text)))}

\* a response whose handler had set a Content-Length header of its own,
\* written out to its last byte
C14_Witness ==
    \E c \in Conns : \E i \in 1..Len(hist[c]) :
        /\ hist[c][i].routed
        /\ hist[c][i].path = <<"/","l">>
        /\ Len(socks[c].wire) >= Len(Written(SubSeq(hist[c], 1, i)))

\* the headers the handler of an answered request set on its response
HandlerHeaders(h) ==
    router_route(router, [http_request_create EXCEPT !.method = h.method, !.path = h.path],
                 http_response_create).res.headers

\* the handler of the answered request set Connection: close
HandlerSetClose(h) ==
    /\ h.routed
    /\ \E k \in 1..Len(HandlerHeaders(h)) :
          /\ HandlerHeaders(h)[k].name = <<"c","o","n","n","e","c","t","i","o","n">>
          /\ lowercase_dup(HandlerHeaders(h)[k].value) = <<"c","l","o","s","e">>

\* the Connection header values a response carries
SaidConnection(h) ==
    FieldValues(ResponseHeaderLines(h.text), <<"c","o","n","n","e","c","t","i","o","n">>)

SaidKeepAlive(h) == SaidConnection(h) = {<<"k","e","e","p","-","a","l","i","v","e">>}

SaidClose(h) == SaidConnection(h) = {<<"c","l","o","s","e">>}

\* C15 as stated, for every response written: the emitted Connection header is
\* keep-alive exactly when the parser's keep_alive flag is true and the
\* handler did not set Connection: close.
C15_EveryResponse ==
    \A c \in Conns : \A i \in 1..Len(hist[c]) :
        SaidKeepAlive(hist[c][i]) <=> (hist[c][i].pkeep /\ ~HandlerSetClose(hist[c][i]))

\* C15, for the responses to routed requests: the emitted Connection header is
\* keep-alive exactly when the parser's keep_alive flag is true and the
\* handler did not set Connection: close, and close otherwise; a response
\* that said close is the connection's last and the connection is closed
\* exactly when it is written out; after a response that said keep-alive the
\* connection stays open for a further request, and is closed only once the
\* response is written out and the client has finished sending.
C15_ConnectionHeader ==
    \A c \in Conns : \A i \in 1..Len(hist[c]) :
        /\ SaidKeepAlive(hist[c][i]) \/ SaidClose(hist[c][i])
        /\ hist[c][i].routed
              => (SaidKeepAlive(hist[c][i])
                    <=> (hist[c][i].pkeep /\ ~HandlerSetClose(hist[c][i])))
        /\ SaidClose(hist[c][i])
              => /\ i = Len(hist[c])
                 /\ (socks[c].state = "closed") = (socks[c].wire = Written(hist[c]))
        /\ (SaidKeepAlive(hist[c][i]) /\ i = Len(hist[c]) /\ socks[c].state = "closed")
              => (socks[c].fin /\ socks[c].wire = Written(hist[c]))

\* a connection kept open after a first answer and closed after a second one,
\* whose handler set Connection: close while the parser's flag said keep-alive
C15_Witness ==
    \E c \in Conns :
        /\ Len(hist[c]) = 2
        /\ SaidKeepAlive(hist[c][1])
        /\ hist[c][2].routed /\ hist[c][2].pkeep /\ HandlerSetClose(hist[c][2])
        /\ SaidClose(hist[c][2])
        /\ socks[c].state = "closed"

\* C20: once a recv or a send on a connection has failed with an I/O error,
\* in threaded as in reactor mode, no further byte is written to that
\* connection and the connection is closed.
C20_NoAnswerAfterIoError ==
    \A c \in Conns :
        socks[c].io_failed >= 0
        => /\ Len(socks[c].wire) = socks[c].io_failed
           /\ socks[c].state = "closed"

(***************************************************************************)
(* Claims about the reactor's connections.                                 *)
(***************************************************************************)
\* the reactor connections that are in being
Live(c) == conns[c].kind = "async" /\ ~conns[c].freed

\* the events descriptor fd is registered for
Interest(fd) == loop.handlers[find_handler_index(loop, fd) + 1].events

\* C34: between callbacks, a live reactor connection is registered for write
\* readiness alone while its prepared response is not fully sent
\* (response_ready), and for read readiness alone otherwise.
C34_ReadOrWrite ==
    \A c \in Conns :
        Live(c)
        => /\ find_handler_index(loop, c) >= 0
           /\ Interest(c) = IF conns[c].response_ready THEN {EVENT_WRITE} ELSE {EVENT_READ}

\* a connection that has gone from reading to writing and back: it has sent an
\* answer and waits for the next request
C34_Witness ==
    \E c \in Conns :
        /\ async_mode /\ Live(c)
        /\ Len(hist[c]) >= 1 /\ socks[c].wire = Written(hist[c])
        /\ ~conns[c].response_ready /\ Interest(c) = {EVENT_READ}

\* C36: a reactor connection record is freed once at most; once freed, its
\* descriptor is closed and not registered with the reactor, so that no
\* callback can be invoked with the record, and nothing is done to the record
\* after free_async_connection.
C36_FreedOnce ==
    \A c \in Conns :
        conns[c].kind = "async"
        => /\ conns[c].frees <= 1
           /\ conns[c].freed <=> conns[c].frees = 1
           /\ conns[c].freed
                 => /\ find_handler_index(loop, c) < 0
                    /\ socks[c].state = "closed"
                    /\ conns[c].client_fd = -1 /\ conns[c].header_buf = NULL

\* a connection freed after it was answered, another still live
C36_Witness ==
    \E c, d \in Conns :
        /\ conns[c].kind = "async" /\ conns[c].freed /\ Len(hist[c]) >= 1
        /\ Live(d)

\* a step in which the listening socket's callback ran: the reactor took
\* connections out of the backlog
AcceptCallbackStep == async_mode /\ Len(backlog') < Len(backlog)

\* C35: one run of the listening socket's callback accepts every pending
\* connection, and each accepted socket gets a connection record and is
\* registered with the reactor for read readiness.
C35_AcceptsAllPending ==
    [][AcceptCallbackStep
       => /\ backlog' = <<>>
          /\ \A k \in 1..Len(backlog) :
                /\ conns'[backlog[k]].kind = "async"
                /\ find_handler_index(loop', backlog[k]) >= 0
                /\ loop'.handlers[find_handler_index(loop', backlog[k]) + 1].events
                      = {EVENT_READ}]_vars

(***************************************************************************)
(* The two modes compared.  What a request means is taken from the parser, *)
(* the router and the serializer alone: the request parsed by itself, then *)
(* routed or answered as an error.  What a client's script means is the    *)
(* answers to its requests up to the first answer that closes.             *)
(***************************************************************************)
Meaning(text) ==
    With(http_parser_execute(http_parser_init(http_request_create), text), LAMBDA r :
    With(IF r.result = PARSER_COMPLETE
         THEN With(router_route(router, r.p.req, http_response_create), LAMBDA routed :
                  IF routed.rc < 0
                  THEN http_response_send_text(routed.res, 404,
                                               <<"N","o","t"," ","F","o","u","n","d">>)
                  ELSE routed.res)
         ELSE http_response_send_text(http_response_create, r.p.error_status,
                                      r.p.error_message), LAMBDA res :
    With(r.result = PARSER_COMPLETE /\ r.p.keep_alive /\ ~response_forces_close(res.headers),
         LAMBDA keep_alive :
    With(serialize_response(res, keep_alive), LAMBDA ser :
        [routed |-> r.result = PARSER_COMPLETE, path |-> r.p.req.path,
         keep_alive |-> keep_alive, text |-> ser.header_buf \o BodyBytes(ser.res)]))))

RECURSIVE Answers(_)
Answers(reqs) ==
    IF reqs = <<>> THEN <<>>
    ELSE With(Meaning(Head(reqs).text), LAMBDA a :
             IF a.keep_alive THEN <<a>> \o Answers(Tail(reqs)) ELSE <<a>>)

\* what each script of a client means, and the bytes that answer it
ClientScripts == {script[c] : script \in Scripts, c \in Conns}

Reference == [s \in ClientScripts |-> Answers(s)]

ReferenceWire == [s \in ClientScripts |-> Written(Reference[s])]

\* the server with a step taken in the end whenever one can be taken: threads
\* run, the event loop delivers the events that are ready, clients send what
\* they have to send and read what is written to them
Fairness ==
    /\ WF_vars(Next)
    /\ \A c \in Conns :
          WF_vars(ClientConnect(c)) /\ WF_vars(ClientSend(c))
              /\ WF_vars(ClientShutdown(c)) /\ WF_vars(ClientRecv(c))

SpecFair == Init /\ [][Next]_vars /\ Fairness

\* the requests dispatched on a connection so far, the bytes of their
\* responses and the decision after each are those the script means
AsReferred(c) ==
    With(Reference[socks[c].script], LAMBDA ref :
        /\ Len(hist[c]) <= Len(ref)
        /\ \A i \in 1..Len(hist[c]) :
              /\ hist[c][i].routed = ref[i].routed
              /\ hist[c][i].routed => hist[c][i].path = ref[i].path
              /\ hist[c][i].text = ref[i].text
              /\ hist[c][i].keep_alive = ref[i].keep_alive
        /\ IsPrefix(socks[c].wire, ReferenceWire[socks[c].script]))

\* C28: in threaded and in reactor mode alike, the requests dispatched on a
\* connection, the bytes of the responses and the decision to close or keep
\* open after each are those the client's byte stream means, and in the end
\* all of the responses are written to the connection.
C28_ModesAgree ==
    \A c \in Conns :
        /\ []AsReferred(c)
        /\ <>(socks[c].wire = ReferenceWire[socks[c].script])

(***************************************************************************)
(* The event loop run by a program of its own (event_loop.c).  The program *)
(* registers descriptors and timers, then calls event_loop_run; its        *)
(* callbacks call back into the loop.  el is the loop together with the    *)
(* clock and with what the program has observed of it:                     *)
(*   reg        the timers event_loop_add_timeout returned an id for, by   *)
(*              id, with the number of times each one's callback ran       *)
(*   cancelled  the ids event_loop_cancel_timeout returned 0 for           *)
(*   live       the registrations the calls have reported: added          *)
(*              successfully and not removed successfully since            *)
(*   call       the last callback run for a descriptor                     *)
(*   stops      the calls of event_loop_stop                               *)
(*   last       the last call into the loop and what it returned           *)
(* el_pc is the position in event_loop_run, el_events the events the       *)
(* backend returned that are not dispatched yet.                           *)
(***************************************************************************)
MaxTime == 2

MaxRounds == 2

\* a descriptor epoll_ctl refuses: a regular file
RegularFile == 5

NoCall == [fd |-> -1, callback |-> "NULL", user_data |-> 0, live |-> TRUE]

NoOp == [op |-> "none", arg |-> 0, rc |-> 0, before |-> event_loop_create]

Registration(fd, events, callback, user_data) ==
    [fd |-> fd, events |-> events, callback |-> callback, user_data |-> user_data]

CallAddFd(w, fd, events, callback, user_data) ==
    With(event_loop_add_fd(w.loop, fd, events, callback, user_data), LAMBDA r :
        [w EXCEPT !.loop = r.loop,
                  !.live = IF r.rc = 0
                           THEN @ \cup {Registration(fd, events, callback, user_data)}
                           ELSE @,
                  !.last = [op |-> "add_fd", arg |-> fd, rc |-> r.rc, before |-> w.loop]])

CallModifyFd(w, fd, events) ==
    With(event_loop_modify_fd(w.loop, fd, events), LAMBDA r :
        [w EXCEPT !.loop = r.loop,
                  !.live = IF r.rc = 0
                           THEN {IF g.fd = fd THEN [g EXCEPT !.events = events] ELSE g : g \in @}
                           ELSE @,
                  !.last = [op |-> "modify_fd", arg |-> fd, rc |-> r.rc, before |-> w.loop]])

CallRemoveFd(w, fd) ==
    With(event_loop_remove_fd(w.loop, fd), LAMBDA r :
        [w EXCEPT !.loop = r.loop,
                  !.live = IF r.rc = 0 THEN {g \in @ : g.fd # fd} ELSE @,
                  !.last = [op |-> "remove_fd", arg |-> fd, rc |-> r.rc, before |-> w.loop]])

CallAddTimeout(w, timeout_ms, callback, user_data) ==
    With(event_loop_add_timeout(w.loop, w.now, timeout_ms, callback, user_data), LAMBDA r :
        [w EXCEPT !.loop = r.loop,
                  !.reg = IF r.rc > 0
                          THEN Append(@, [id |-> r.rc, expiry |-> w.now + timeout_ms,
                                          callback |-> callback, user_data |-> user_data,
                                          fired |-> 0, early |-> FALSE,
                                          after_cancel |-> FALSE])
                          ELSE @,
                  !.last = [op |-> "add_timeout", arg |-> timeout_ms, rc |-> r.rc,
                            before |-> w.loop]])

CallCancelTimeout(w, timer_id) ==
    With(event_loop_cancel_timeout(w.loop, timer_id), LAMBDA r :
        [w EXCEPT !.loop = r.loop,
                  !.cancelled = IF r.rc = 0 THEN @ \cup {timer_id} ELSE @,
                  !.last = [op |-> "cancel_timeout", arg |-> timer_id, rc |-> r.rc,
                            before |-> w.loop]])

CallStop(w) ==
    [w EXCEPT !.loop = event_loop_stop(@), !.stops = @ + 1,
              !.last = [op |-> "stop", arg |-> 0, rc |-> 0, before |-> w.loop]]

\* the callbacks of the program: each makes one call into the loop, on the
\* descriptor, the timer id or the timeout its user_data names
Callback(w, callback, fd, events, user_data) ==
    CASE callback = "on_remove" -> CallRemoveFd(w, user_data)
      [] callback = "on_add" -> CallAddFd(w, user_data, {EVENT_READ}, "on_idle", 0)
      [] callback = "on_modify" -> CallModifyFd(w, user_data, {EVENT_WRITE})
      [] callback = "on_stop" -> CallStop(w)
      [] callback = "on_timeout" -> CallAddTimeout(w, user_data, "on_idle", 0)
      [] callback = "on_cancel" -> CallCancelTimeout(w, user_data)
      [] OTHER -> w

\* event_loop_run, for one event the backend returned
dispatch(w, e) ==
    With(find_handler_index(w.loop, e.fd), LAMBDA idx :
        IF idx < 0 \/ ~w.loop.handlers[idx + 1].active THEN w
        ELSE With(w.loop.handlers[idx + 1], LAMBDA h :
                 Callback([w EXCEPT !.call = [fd |-> e.fd, callback |-> h.callback,
                                              user_data |-> h.user_data,
                                              live |-> Registration(e.fd, h.events, h.callback,
                                                                    h.user_data) \in w.live]],
                          h.callback, e.fd, e.events, h.user_data)))

\* the callback of the timer in slot i is about to run
Fires(w, i) ==
    With(w.loop.timers[i], LAMBDA t :
        [w EXCEPT !.reg[t.id].fired = @ + 1,
                  !.reg[t.id].early = @ \/ w.now < w.reg[t.id].expiry,
                  !.reg[t.id].after_cancel = @ \/ t.id \in w.cancelled])

\* the for loop of process_timers from index i on, with the time it read
RECURSIVE timers_scan(_, _, _)
timers_scan(w, i, now) ==
    IF i >= w.loop.timer_count THEN w
    ELSE IF ~w.loop.timers[i].active THEN timers_scan(w, i + 1, now)
    ELSE IF now >= w.loop.timers[i].expiry
    THEN With(Callback(Fires(w, i), w.loop.timers[i].callback, -1, {EVENT_TIMEOUT},
                       w.loop.timers[i].user_data), LAMBDA a :
         With([a.loop EXCEPT !.timers[i].active = FALSE], LAMBDA lp :
             timers_scan([a EXCEPT !.loop = timers_compact(lp, i)],
                         IF i < lp.timer_count - 1 THEN i ELSE i + 1, now)))
    ELSE timers_scan(w, i + 1, now)

process_timers(w) == timers_scan(w, 0, w.now)

\* the calls a program makes before it runs the loop
AddFd(fd, callback, user_data) ==
    [op |-> "add_fd", fd |-> fd, callback |-> callback, user_data |-> user_data]

ModifyFd(fd) == [op |-> "modify_fd", fd |-> fd, callback |-> "NULL", user_data |-> 0]

RemoveFd(fd) == [op |-> "remove_fd", fd |-> fd, callback |-> "NULL", user_data |-> 0]

AddTimeout(timeout_ms, callback, user_data) ==
    [op |-> "add_timeout", fd |-> timeout_ms, callback |-> callback, user_data |-> user_data]

CancelTimeout(timer_id) ==
    [op |-> "cancel_timeout", fd |-> timer_id, callback |-> "NULL", user_data |-> 0]

Apply(w, call) ==
    CASE call.op = "add_fd" ->
             CallAddFd(w, call.fd, {EVENT_READ}, call.callback, call.user_data)
      [] call.op = "modify_fd" -> CallModifyFd(w, call.fd, {EVENT_WRITE})
      [] call.op = "remove_fd" -> CallRemoveFd(w, call.fd)
      [] call.op = "add_timeout" ->
             CallAddTimeout(w, call.fd, call.callback, call.user_data)
      [] OTHER -> CallCancelTimeout(w, call.fd)

\* the timers a program may add: idle ones due at once or later, ones that
\* cancel the timer of an id, one that adds a timer
TimerPlans ==
    {AddTimeout(ms, "on_idle", 0) : ms \in 0..1}
        \cup {AddTimeout(0, "on_cancel", id) : id \in 1..MAX_TIMERS}
        \cup {AddTimeout(0, "on_timeout", 0)}

TimerScripts == UNION {[1..n -> TimerPlans] : n \in 0..MAX_TIMERS}

\* the descriptors a program may register, and what else it does before the run
FdScripts ==
    { <<>>,
      <<AddFd(3, "on_cancel", 1), AddFd(4, "on_idle", 0)>>,
      <<AddFd(3, "on_timeout", 0)>>,
      <<AddFd(3, "on_stop", 0), AddFd(4, "on_idle", 0)>> }

\* programs about the descriptors only
FdPrograms ==
    { <<AddFd(3, "on_remove", 3), AddFd(4, "on_idle", 0), AddFd(3, "on_idle", 0)>>,
      <<AddFd(3, "on_idle", 1), AddFd(4, "on_remove", 3), AddFd(4, "NULL", 0)>>,
      <<AddFd(3, "on_remove", 3), AddFd(4, "on_add", 3)>>,
      <<AddFd(4, "on_modify", 3), AddFd(3, "on_remove", 4), ModifyFd(4), ModifyFd(6)>>,
      <<AddFd(RegularFile, "on_idle", 0), AddFd(3, "on_modify", RegularFile),
        AddFd(4, "on_stop", 0), RemoveFd(RegularFile)>>,
      <<AddFd(3, "on_idle", 0), AddFd(4, "on_remove", 4), RemoveFd(3), RemoveFd(3),
        AddFd(3, "on_add", 4), AddFd(-1, "on_idle", 0)>>,
      <<AddFd(3, "on_stop", 0), AddFd(4, "on_remove", 3), AddTimeout(0, "on_remove", 4),
        AddTimeout(1, "on_stop", 0), AddTimeout(-1, "on_idle", 0)>> }

\* programs that cancel timers before the run, or add more than the array holds
TimerPrograms ==
    { <<AddTimeout(0, "on_idle", 0), AddTimeout(1, "on_idle", 0), CancelTimeout(1),
        CancelTimeout(1)>>,
      <<AddTimeout(0, "on_idle", 0), AddTimeout(0, "on_cancel", 1), CancelTimeout(2),
        AddTimeout(0, "on_idle", 0)>>,
      [i \in 1..(MAX_TIMERS + 1) |-> AddTimeout(1, "on_idle", 0)] }

Programs ==
    {fds \o timers : fds \in FdScripts, timers \in TimerScripts}
        \cup FdPrograms \cup TimerPrograms

ElInit ==
    /\ el = [loop |-> [event_loop_create EXCEPT !.epoll_rejects = {RegularFile}],
             now |-> 0, reg |-> <<>>, cancelled |-> {}, live |-> {},
             call |-> NoCall, stops |-> 0, last |-> NoOp]
    /\ el_pc = "setup"
    /\ el_script \in Programs
    /\ el_events = <<>> /\ el_rounds = 0 /\ el_rc = 0
    /\ hdr = <<>> /\ LibIdle
    /\ async_mode = FALSE /\ conns = <<>> /\ socks = <<>> /\ backlog = <<>>
    /\ loop = <<>> /\ hist = <<>> /\ last = <<>>
    /\ feed_desc = <<>> /\ feed_rest = <<>> /\ feed_parser = <<>> /\ feed_result = <<>>
    /\ fresh_parser = <<>> /\ fresh_result = <<>>

\* the program makes its next call before the run
ElSetup ==
    /\ el_pc = "setup" /\ el_script # <<>>
    /\ el' = Apply(el, Head(el_script))
    /\ el_script' = Tail(el_script)
    /\ UNCHANGED <<el_pc, el_events, el_rounds, el_rc, feed_vars, server_vars, hdr, lib_vars>>

\* event_loop_run is called
ElRun ==
    /\ el_pc = "setup" /\ el_script = <<>>
    /\ el' = [el EXCEPT !.loop.running = TRUE, !.stops = 0]
    /\ el_pc' = "top"
    /\ UNCHANGED <<el_script, el_events, el_rounds, el_rc, feed_vars, server_vars, hdr, lib_vars>>

RECURSIVE Orders(_)
Orders(S) ==
    IF S = {} THEN {<<>>}
    ELSE UNION {{<<x>> \o rest : rest \in Orders(S \ {x})} : x \in S}

\* what the backend may return: events for some of the registered descriptors
Batches(lp) ==
    UNION {Orders(T) :
              T \in SUBSET {[fd |-> lp.handlers[i].fd, events |-> lp.handlers[i].events] :
                               i \in 1..Len(lp.handlers)}}

\* the wait on the backend returns events at time t: none only when the
\* timeout it was given has run out
ElWait ==
    /\ el_pc = "top" /\ el.loop.running /\ ~el.loop.clobbered
    /\ el_rounds < MaxRounds
    /\ \E batch \in Batches(el.loop), t \in el.now..MaxTime :
          /\ batch = <<>> =>
                /\ get_next_timeout(el.loop, el.now) >= 0
                /\ t >= el.now + get_next_timeout(el.loop, el.now)
          /\ el' = [el EXCEPT !.now = t]
          /\ el_events' = batch
    /\ el_pc' = "dispatch"
    /\ el_rounds' = el_rounds + 1
    /\ UNCHANGED <<el_script, el_rc, feed_vars, server_vars, hdr, lib_vars>>

\* the wait is interrupted by a signal (EINTR): the loop goes round at once
ElInterrupted ==
    /\ el_pc = "top" /\ el.loop.running /\ ~el.loop.clobbered
    /\ \E t \in (el.now + 1)..MaxTime : el' = [el EXCEPT !.now = t]
    /\ UNCHANGED <<el_pc, el_script, el_events, el_rounds, el_rc, feed_vars, server_vars, hdr, lib_vars>>

\* the next event of the batch is handed to its descriptor's callback
ElDispatch ==
    /\ el_pc = "dispatch" /\ el_events # <<>> /\ ~el.loop.clobbered
    /\ el' = dispatch(el, Head(el_events))
    /\ el_events' = Tail(el_events)
    /\ UNCHANGED <<el_pc, el_script, el_rounds, el_rc, feed_vars, server_vars, hdr, lib_vars>>

\* the batch is done: process_timers, and back to the top of the while loop
ElTimers ==
    /\ el_pc = "dispatch" /\ el_events = <<>> /\ ~el.loop.clobbered
    /\ el' = process_timers(el)
    /\ el_pc' = "top"
    /\ UNCHANGED <<el_script, el_events, el_rounds, el_rc, feed_vars, server_vars, hdr, lib_vars>>

\* running is false at the top of the while loop: event_loop_run returns 0
ElReturn ==
    /\ el_pc = "top" /\ ~el.loop.running /\ ~el.loop.clobbered
    /\ el_pc' = "returned"
    /\ el_rc' = 0
    /\ UNCHANGED <<el, el_script, el_events, el_rounds, feed_vars, server_vars, hdr, lib_vars>>

\* after a store to timers[-1] the loop's fields before the array (running,
\* the epoll descriptor, the handlers pointer) hold parts of a timer: the
\* run ends on the failing wait (-1), on running read as false (0), or the
\* process is killed on a wild access
ElClobbered ==
    /\ el_pc \in {"top", "dispatch"} /\ el.loop.clobbered
    /\ \E end \in {[pc |-> "returned", rc |-> -1], [pc |-> "returned", rc |-> 0],
                   [pc |-> "killed", rc |-> 0]} :
          el_pc' = end.pc /\ el_rc' = end.rc
    /\ UNCHANGED <<el, el_script, el_events, el_rounds, feed_vars, server_vars, hdr, lib_vars>>

ElNext ==
    \/ ElSetup
    \/ ElRun
    \/ ElWait
    \/ ElInterrupted
    \/ ElDispatch
    \/ ElTimers
    \/ ElReturn
    \/ ElClobbered

SpecLoop == ElInit /\ [][ElNext]_vars

(***************************************************************************)
(* Claims about the event loop                                             *)
(***************************************************************************)
\* the slots in use that hold the active timer of an id
Pending(lp, id) == {i \in TimerSlots(lp) : lp.timers[i].id = id /\ lp.timers[i].active}

\* the timers the loop holds to fire: id, expiry, callback and user data
PendingTimers(lp) ==
    {[id |-> lp.timers[i].id, expiry |-> lp.timers[i].expiry,
      callback |-> lp.timers[i].callback, user_data |-> lp.timers[i].user_data] :
        i \in {k \in TimerSlots(lp) : lp.timers[k].active}}

\* C21: the callback of a timer registered with event_loop_add_timeout runs
\* at most once and never before the timer's expiry, and a timer that was not
\* cancelled and has not fired yet is still held by the loop to fire, also
\* when timer callbacks add or cancel timers during the expiry scan.
C21_TimerFiresOnce ==
    \A id \in 1..Len(el.reg) :
        /\ el.reg[id].fired <= 1
        /\ ~el.reg[id].early
        /\ (id \notin el.cancelled /\ el.reg[id].fired = 0) => Pending(el.loop, id) # {}

\* C22: after event_loop_cancel_timeout(id) has returned 0 the callback
\* registered for id is never invoked, and the loop holds no timer of that id
\* any more, whether the cancel came before the run, from a descriptor's
\* callback or from another timer's callback during the expiry scan.
C22_CancelledNeverFires ==
    \A id \in 1..Len(el.reg) :
        /\ ~el.reg[id].after_cancel
        /\ id \in el.cancelled => Pending(el.loop, id) = {}

\* a timer that was due, cancelled by another timer's callback before its
\* turn in the expiry scan, and the scan over
C22_Witness ==
    /\ el_pc = "top" /\ el_rounds >= 1
    /\ \E id \in el.cancelled : \E by \in 1..Len(el.reg) :
          /\ el.reg[id].fired = 0 /\ el.reg[id].expiry <= el.now
          /\ by # id /\ el.reg[by].fired >= 1
          /\ el.reg[by].callback = "on_cancel" /\ el.reg[by].user_data = id

\* C23: event_loop_cancel_timeout(id) removes at most the timer of that id:
\* cancelling again returns -1 and changes nothing, a failed cancel changes
\* nothing, and every timer that was neither cancelled nor fired is still
\* held with its id and its expiry, also after cancels made from inside timer
\* callbacks, a timer cancelling itself included.
C23_CancelOnlyItsTimer ==
    /\ \A id \in 1..Len(el.reg) :
          (id \notin el.cancelled /\ el.reg[id].fired = 0)
             => \E i \in Pending(el.loop, id) : el.loop.timers[i].expiry = el.reg[id].expiry
    /\ \A id \in 0..(Len(el.reg) + 1) :
          With(event_loop_cancel_timeout(el.loop, id), LAMBDA r :
              /\ r.rc = 0 =>
                    /\ event_loop_cancel_timeout(r.loop, id) = [loop |-> r.loop, rc |-> -1]
                    /\ PendingTimers(r.loop) = {t \in PendingTimers(el.loop) : t.id # id}
              /\ r.rc # 0 => r.loop = el.loop)

\* C37: in every state of the event loop timer_count is between 0 and
\* MAX_TIMERS, every slot below timer_count holds an active timer, and no two
\* of these slots hold the same id.
C37_TimerTable ==
    el # <<>>
    => /\ 0 <= el.loop.timer_count /\ el.loop.timer_count <= MAX_TIMERS
       /\ \A i \in TimerSlots(el.loop) : el.loop.timers[i].active
       /\ \A i, j \in TimerSlots(el.loop) :
             el.loop.timers[i].id = el.loop.timers[j].id => i = j

\* the registrations the handlers table holds
Handlers(lp) ==
    {Registration(lp.handlers[i].fd, lp.handlers[i].events, lp.handlers[i].callback,
                  lp.handlers[i].user_data) : i \in 1..Len(lp.handlers)}

\* C24: a callback is invoked for a descriptor only while the descriptor is
\* registered (added and not removed since), so never again after the
\* callback removed its own descriptor during dispatch unless it was added
\* again; and after a successful event_loop_remove_fd every other handler is
\* still registered with its fd, interest, callback and user data, and
\* handler_count is one less.
C24_RemoveDuringDispatch ==
    /\ el.call.live
    /\ (el.last.op = "remove_fd" /\ el.last.rc = 0)
          => /\ Handlers(el.loop) = {g \in Handlers(el.last.before) : g.fd # el.last.arg}
             /\ handler_count(el.loop) = handler_count(el.last.before) - 1
             /\ find_handler_index(el.loop, el.last.arg) < 0

\* a callback has removed its own descriptor during dispatch, with another
\* handler registered, and the loop has gone on to a further round
C24_Witness ==
    /\ el_pc = "dispatch" /\ el_rounds >= 2
    /\ el.call.callback = "on_remove" /\ el.call.user_data = el.call.fd
    /\ el.last.op = "remove_fd" /\ el.last.arg = el.call.fd /\ el.last.rc = 0
    /\ handler_count(el.loop) >= 1

\* C25: event_loop_add_fd on a descriptor that is registered returns -1 and
\* leaves the loop as it is, whatever interest, callback and user data it is
\* given, and the handlers table holds at most one handler per descriptor.
C25_DuplicateAddFails ==
    /\ \A i, j \in 1..Len(el.loop.handlers) :
          el.loop.handlers[i].fd = el.loop.handlers[j].fd => i = j
    /\ \A g \in Handlers(el.loop) :
          \A events \in SUBSET {EVENT_READ, EVENT_WRITE} :
             \A callback \in {"on_idle", "on_stop"}, user_data \in 0..1 :
                event_loop_add_fd(el.loop, g.fd, events, callback, user_data)
                   = [loop |-> el.loop, rc |-> -1]
    /\ Handlers(el.loop) = el.live

\* the program has added a descriptor that was registered, and was refused
C25_Witness ==
    /\ el.last.op = "add_fd" /\ el.last.rc = -1
    /\ find_handler_index(el.last.before, el.last.arg) >= 0
    /\ el.loop.handlers = el.last.before.handlers

\* C26: event_loop_modify_fd(fd, events) on a registered descriptor returns 0
\* and changes the interest mask of that descriptor's handler and nothing
\* else: not its callback or user data, no other handler, no timer; on a
\* descriptor that is not registered it returns -1 and changes nothing.
C26_ModifyOnlyTheMask ==
    \A fd \in 3..6 : \A events \in SUBSET {EVENT_READ, EVENT_WRITE} :
        With(event_loop_modify_fd(el.loop, fd, events), LAMBDA r :
            IF \E g \in el.live : g.fd = fd
            THEN /\ r.rc = 0
                 /\ Len(r.loop.handlers) = Len(el.loop.handlers)
                 /\ \A i \in 1..Len(el.loop.handlers) :
                       r.loop.handlers[i]
                          = IF el.loop.handlers[i].fd = fd
                            THEN [el.loop.handlers[i] EXCEPT !.events = events]
                            ELSE el.loop.handlers[i]
                 /\ [r.loop EXCEPT !.handlers = <<>>] = [el.loop EXCEPT !.handlers = <<>>]
            ELSE r = [loop |-> el.loop, rc |-> -1])

\* a callback has changed the interest of another registered descriptor
C26_Witness ==
    /\ el_pc = "dispatch"
    /\ el.call.callback = "on_modify"
    /\ el.last.op = "modify_fd" /\ el.last.rc = 0
    /\ handler_count(el.loop) >= 2
    /\ \E g \in el.live : g.fd = el.last.arg /\ g.events = {EVENT_WRITE}

\* C27: once a callback has called event_loop_stop during the run, the loop
\* does not wait on the backend again: it finishes the iteration under way and
\* event_loop_run returns 0 from the top of its while loop; and the run does
\* not return before event_loop_stop was called.
C27_StopEndsRun ==
    /\ [][(el_pc \in {"top", "dispatch"} /\ el.stops > 0 /\ ~el.loop.clobbered)
            => /\ el_rounds' = el_rounds
               /\ el_pc = "top" => (el_pc' = "returned" /\ el_rc' = 0)]_vars
    /\ []((el_pc = "returned" /\ ~el.loop.clobbered) => (el.stops > 0 /\ el_rc = 0))

\* a descriptor's callback stopped the loop and event_loop_run has returned 0
C27_Witness ==
    /\ el_pc = "returned" /\ el_rc = 0
    /\ el.stops > 0 /\ el.call.callback = "on_stop"
    /\ el.last.op = "stop"

(***************************************************************************)
(* Header lists set entry by entry.  hdr holds a parser whose request gets *)
(* the header lines parse_header_line is given, a response whose headers   *)
(* are set with http_response_set_header, and the names and values given   *)
(* to each, in order.                                                      *)
(***************************************************************************)
MaxSets == 3

SET_COOKIE == <<"s","e","t","-","c","o","o","k","i","e">>

HeaderNames ==
    { <<"S","e","t","-","C","o","o","k","i","e">>, SET_COOKIE,
      <<"X","-","A">>, <<"x","-","a">>, <<"X","-","B">> }

HeaderValues == { <<"1">>, <<"2">> }

HdrInit ==
    /\ hdr = [parser |-> http_parser_init(http_request_create),
              res |-> http_response_create, req_set |-> <<>>, res_set |-> <<>>]
    /\ ElIdle /\ LibIdle
    /\ async_mode = FALSE /\ conns = <<>> /\ socks = <<>> /\ backlog = <<>>
    /\ loop = <<>> /\ hist = <<>> /\ last = <<>>
    /\ feed_desc = <<>> /\ feed_rest = <<>> /\ feed_parser = <<>> /\ feed_result = <<>>
    /\ fresh_parser = <<>> /\ fresh_result = <<>>

\* the parser is given the header line "name: value"
HdrRequestLine(name, value) ==
    /\ Len(hdr.req_set) + Len(hdr.res_set) < MaxSets
    /\ \E r \in {parse_header_line(hdr.parser, name \o <<":"," ">> \o value)} :
          /\ r.rc >= 0
          /\ hdr' = [hdr EXCEPT !.parser = r.p,
                                !.req_set = Append(@, [name |-> name, value |-> value])]
    /\ UNCHANGED <<feed_vars, server_vars, el_vars, lib_vars>>

\* a handler calls http_response_set_header(res, name, value)
HdrResponseSet(name, value) ==
    /\ Len(hdr.req_set) + Len(hdr.res_set) < MaxSets
    /\ hdr' = [hdr EXCEPT !.res = http_response_set_header(@, name, value),
                          !.res_set = Append(@, [name |-> name, value |-> value])]
    /\ UNCHANGED <<feed_vars, server_vars, el_vars, lib_vars>>

HdrNext ==
    \E name \in HeaderNames, value \in HeaderValues :
        \/ HdrRequestLine(name, value)
        \/ HdrResponseSet(name, value)

SpecHeaders == HdrInit /\ [][HdrNext]_vars

\* what a list holds after the names and values set, in order: Set-Cookie
\* entries one after the other, one entry for every other name, with the last
\* value set and the letter case of the first occurrence
RECURSIVE Expected(_)
Expected(sets) ==
    IF sets = <<>> THEN <<>>
    ELSE LET before == Expected(SubSeq(sets, 1, Len(sets) - 1))
             s == sets[Len(sets)]
             lower == lowercase_dup(s.name)
             at == {i \in 1..Len(before) : before[i].name = lower}
         IN IF lower = SET_COOKIE \/ at = {}
            THEN Append(before, [name |-> lower, raw_name |-> s.name, value |-> s.value])
            ELSE [before EXCEPT ![Min(at)].value = s.value]

NamesAndValues(head) == [i \in 1..Len(head) |-> <<head[i].name, head[i].value>>]

\* C29: in the request's and in the response's header list, Set-Cookie
\* entries accumulate in insertion order, and setting any other name again
\* replaces the value and leaves one entry for the name.
C29_SetCookieAccumulates ==
    /\ NamesAndValues(hdr.parser.req.headers) = NamesAndValues(Expected(hdr.req_set))
    /\ NamesAndValues(hdr.res.headers) = NamesAndValues(Expected(hdr.res_set))

\* the stored original-casing names of the entries that are not Set-Cookie
RawNames(head) ==
    {<<head[i].name, head[i].raw_name>> : i \in {k \in 1..Len(head) : head[k].name # SET_COOKIE}}

\* C30: in the request's and in the response's header list, an entry set
\* again under another letter case keeps the original-casing name of its
\* first occurrence, and http_request_get_header finds a header under any
\* letter case of its name.
C30_FirstCasingKept ==
    /\ RawNames(hdr.parser.req.headers) = RawNames(Expected(hdr.req_set))
    /\ RawNames(hdr.res.headers) = RawNames(Expected(hdr.res_set))
    /\ \A i \in 1..Len(hdr.req_set) :
          hdr.req_set[i].name \notin {SET_COOKIE, <<"S","e","t","-","C","o","o","k","i","e">>}
             => \A key \in {k \in HeaderNames : lowercase_dup(k) = lowercase_dup(hdr.req_set[i].name)} :
                   http_request_get_header(hdr.parser.req, key)
                      = Expected(hdr.req_set)[header_list_find(Expected(hdr.req_set),
                                                               lowercase_dup(key))].value

(***************************************************************************)
(* The connection pool (db_pool.c).  A connection is the address calloc    *)
(* gave it; conn maps each address to the db_connection_t stored there, or *)
(* to Freed.  Every function of the pool runs with the pool's mutex held,  *)
(* so a call is one step, except db_pool_acquire, which gives the mutex up *)
(* while it waits in pthread_cond_timedwait: each pass of its while loop   *)
(* is one step.  Of a connection the database handle is left out, and of   *)
(* the statistics only total_acquired and total_released are kept.         *)
(***************************************************************************)
PoolCapacity == 3
Addresses == 1..(PoolCapacity + 1)
NoConnection == 0
DB_CONN_IDLE == "DB_CONN_IDLE"
DB_CONN_IN_USE == "DB_CONN_IN_USE"
Freed == [state |-> "freed", created_at |-> 0, last_used |-> 0]

\* pool->size
size(pool) == Len(pool.connections)

\* calloc returns memory not in use: the lowest such address
calloc(pool) == CHOOSE a \in Addresses :
                    /\ pool.conn[a] = Freed
                    /\ \A b \in Addresses : pool.conn[b] = Freed => a <= b

create_connection(pool, now, addr, connected) ==
    IF ~connected
    THEN [pool |-> pool, conn |-> NoConnection]
    ELSE [pool |-> [pool EXCEPT !.conn[addr] = [state |-> DB_CONN_IDLE, created_at |-> now,
                                                last_used |-> now]],
          conn |-> addr]

close_connection(pool, c) == [pool EXCEPT !.conn[c] = Freed]

\* pings: the connections whose ping succeeds
validate_connection(pool, c, now, pings) ==
    IF pool.config.max_lifetime > 0 /\ now - pool.conn[c].created_at > pool.config.max_lifetime
    THEN [pool |-> pool, valid |-> FALSE]
    ELSE IF pool.config.max_idle_time > 0
            /\ now - pool.conn[c].last_used > pool.config.max_idle_time
    THEN [pool |-> pool, valid |-> FALSE]
    ELSE IF pool.config.validate_on_acquire /\ c \notin pings
    THEN [pool |-> pool, valid |-> FALSE]
    ELSE [pool |-> pool, valid |-> TRUE]

\* connections[i] = connections[--size], i counted from 0
remove_at(pool, i) ==
    [pool EXCEPT !.connections =
        [k \in 1..(Len(@) - 1) |-> IF k = i + 1 THEN @[Len(@)] ELSE @[k]]]

db_pool_create(config, connects) ==
    [config |-> config,
     connections |-> [k \in 1..Cardinality({i \in 1..config.min_connections : connects[i]})
                         |-> k],
     conn |-> [a \in Addresses |->
                  IF a <= Cardinality({i \in 1..config.min_connections : connects[i]})
                  THEN [state |-> DB_CONN_IDLE, created_at |-> 0, last_used |-> 0]
                  ELSE Freed],
     stats |-> [total_acquired |-> 0, total_released |-> 0]]

\* a variant of the search that takes the first connection, idle or not
acquire_scan_first(pool, i, now, pings) ==
    IF i >= size(pool) THEN [pool |-> pool, conn |-> NoConnection]
    ELSE [pool |-> [pool EXCEPT !.conn[pool.connections[i + 1]].state = DB_CONN_IN_USE,
                                !.conn[pool.connections[i + 1]].last_used = now,
                                !.stats.total_acquired = @ + 1],
          conn |-> pool.connections[i + 1]]

\* db_pool_acquire: the search for an idle connection, from index i
RECURSIVE acquire_scan(_, _, _, _)
acquire_scan(pool, i, now, pings) ==
    IF i >= size(pool) THEN [pool |-> pool, conn |-> NoConnection]
    ELSE With(pool.connections[i + 1], LAMBDA c :
        IF pool.conn[c].state # DB_CONN_IDLE THEN acquire_scan(pool, i + 1, now, pings)
        ELSE With(validate_connection(pool, c, now, pings), LAMBDA v :
            IF v.valid
            THEN [pool |-> [v.pool EXCEPT !.conn[c].state = DB_CONN_IN_USE,
                                          !.conn[c].last_used = now,
                                          !.stats.total_acquired = @ + 1],
                  conn |-> c]
            ELSE acquire_scan(remove_at(close_connection(v.pool, c), i), i + 1, now, pings)))

\* db_pool_acquire: one pass of its while loop; waits says that the pass ends
\* in pthread_cond_timedwait
acquire_pass(pool, now, start_time, pings, addr, connected) ==
    With(acquire_scan(pool, 0, now, pings), LAMBDA s :
    With(IF s.conn = NoConnection /\ size(s.pool) < s.pool.config.max_connections
         THEN With(create_connection(s.pool, now, addr, connected), LAMBDA made :
                  IF made.conn = NoConnection THEN made
                  ELSE [pool |-> [made.pool EXCEPT !.connections = Append(@, made.conn),
                                                   !.conn[made.conn].state = DB_CONN_IN_USE,
                                                   !.conn[made.conn].last_used = now,
                                                   !.stats.total_acquired = @ + 1],
                        conn |-> made.conn])
         ELSE s, LAMBDA r :
        IF r.conn # NoConnection THEN [pool |-> r.pool, conn |-> r.conn, waits |-> FALSE]
        ELSE IF r.pool.config.connection_timeout > 0
                /\ now - start_time >= r.pool.config.connection_timeout
        THEN [pool |-> r.pool, conn |-> NoConnection, waits |-> FALSE]
        ELSE [pool |-> r.pool, conn |-> NoConnection, waits |-> TRUE]))

\* a variant of db_pool_release that does not count the release
db_pool_release_uncounted(pool, c, now) ==
    IF c = NoConnection \/ \A k \in 1..size(pool) : pool.connections[k] # c
    THEN [pool |-> pool, rc |-> -1]
    ELSE [pool |-> [pool EXCEPT !.conn[c].state = DB_CONN_IDLE, !.conn[c].last_used = now],
          rc |-> 0]

db_pool_release(pool, c, now) ==
    IF c = NoConnection \/ \A k \in 1..size(pool) : pool.connections[k] # c
    THEN [pool |-> pool, rc |-> -1]
    ELSE [pool |-> [pool EXCEPT !.conn[c].state = DB_CONN_IDLE, !.conn[c].last_used = now,
                                !.stats.total_released = @ + 1],
          rc |-> 0]

db_pool_get_stats(pool) ==
    [total_connections |-> size(pool),
     active_connections |->
         Cardinality({k \in 1..size(pool) : pool.conn[pool.connections[k]].state = DB_CONN_IN_USE}),
     idle_connections |->
         Cardinality({k \in 1..size(pool) : pool.conn[pool.connections[k]].state = DB_CONN_IDLE}),
     total_acquired |-> pool.stats.total_acquired,
     total_released |-> pool.stats.total_released]

\* db_pool_close_idle: current_count <= min_connections, where current_count
\* is pool->size - closed computed in size_t: a difference below 0 wraps to a
\* count above every minimum
at_minimum(pool, closed) ==
    size(pool) >= closed /\ size(pool) - closed <= pool.config.min_connections

\* db_pool_close_idle: its while loop from index i with closed connections
\* closed so far
RECURSIVE close_idle_scan(_, _, _)
close_idle_scan(pool, i, closed) ==
    IF i >= size(pool) THEN [pool |-> pool, rc |-> closed]
    ELSE IF pool.conn[pool.connections[i + 1]].state = DB_CONN_IDLE
    THEN IF at_minimum(pool, closed)
         THEN close_idle_scan(pool, i + 1, closed)
         ELSE close_idle_scan(remove_at(close_connection(pool, pool.connections[i + 1]), i),
                              i, closed + 1)
    ELSE close_idle_scan(pool, i + 1, closed)

\* a variant of db_pool_close_idle that closes the idle connections whatever
\* the minimum is
RECURSIVE close_idle_all(_, _, _)
close_idle_all(pool, i, closed) ==
    IF i >= size(pool) THEN [pool |-> pool, rc |-> closed]
    ELSE IF pool.conn[pool.connections[i + 1]].state = DB_CONN_IDLE
    THEN close_idle_all(remove_at(close_connection(pool, pool.connections[i + 1]), i),
                        i, closed + 1)
    ELSE close_idle_all(pool, i + 1, closed)

db_pool_close_idle_below(pool) == close_idle_all(pool, 0, 0)

db_pool_close_idle(pool) == close_idle_scan(pool, 0, 0)

(***************************************************************************)
(* The pool used by threads.  dbp holds the pool, the clock time() reads,  *)
(* and for each calling thread where it stands: ready to call              *)
(* db_pool_acquire, waiting inside it, holding the connection it returned, *)
(* or finished.  A thread releases the connection it holds, once.          *)
(***************************************************************************)
Callers == 1..3
PoolRounds == 1
PoolClock == 2
PoolCloses == 1

PoolConfig(min, idle, lifetime, timeout, validate) ==
    [min_connections |-> min, max_connections |-> PoolCapacity, max_idle_time |-> idle,
     max_lifetime |-> lifetime, connection_timeout |-> timeout,
     validate_on_acquire |-> validate]

PoolConfigs ==
    {PoolConfig(0, 0, 0, 0, FALSE), PoolConfig(1, 1, 0, 1, TRUE),
     PoolConfig(2, 0, 1, 1, FALSE), PoolConfig(0, 0, 0, 1, TRUE)}

PoolInit ==
    /\ \E config \in PoolConfigs :
       \E failed \in {0, 1} :
          dbp = [pool |-> db_pool_create(config, [i \in 1..config.min_connections |-> i > failed]),
                 now |-> 0,
                 callers |-> [t \in Callers |-> [pc |-> "ready", conn |-> NoConnection,
                                                 start_time |-> 0, wait_until |-> 0,
                                                 rounds |-> 0]],
                 closes |-> 0,
                 close_idle |-> <<>>]
    /\ rlim = <<>> /\ stp = <<>> /\ hdr = <<>>
    /\ ElIdle
    /\ async_mode = FALSE /\ conns = <<>> /\ socks = <<>> /\ backlog = <<>>
    /\ loop = <<>> /\ hist = <<>> /\ last = <<>>
    /\ feed_desc = <<>> /\ feed_rest = <<>> /\ feed_parser = <<>> /\ feed_result = <<>>
    /\ fresh_parser = <<>> /\ fresh_result = <<>>

\* a pass of db_pool_acquire's loop made by thread t, which started at start_time
PoolPass(t, start_time) ==
    /\ \E pings \in SUBSET {dbp.pool.connections[k] : k \in 1..size(dbp.pool)} :
       \E addr \in {calloc(dbp.pool)} :
       \E connected \in BOOLEAN :
       \E r \in {acquire_pass(dbp.pool, dbp.now, start_time, pings, addr, connected)} :
          dbp' = [dbp EXCEPT
                     !.pool = r.pool,
                     !.callers[t] =
                         IF r.waits THEN [@ EXCEPT !.pc = "waiting", !.start_time = start_time,
                                                   !.wait_until = dbp.now + 1]
                         ELSE IF r.conn # NoConnection
                         THEN [@ EXCEPT !.pc = "holding", !.conn = r.conn,
                                        !.rounds = @ + 1]
                         ELSE [@ EXCEPT !.pc = IF dbp.callers[t].rounds + 1 < PoolRounds
                                               THEN "ready" ELSE "finished",
                                        !.rounds = @ + 1]]
    /\ UNCHANGED <<feed_vars, server_vars, el_vars, hdr, rlim, stp>>

\* the connections of the pool that are in use
InUse(pool) ==
    {pool.connections[k] : k \in {j \in 1..size(pool) :
                                      pool.conn[pool.connections[j]].state = DB_CONN_IN_USE}}

\* db_pool_acquire called
PoolAcquire(t) ==
    /\ dbp.callers[t].pc = "ready"
    /\ PoolPass(t, dbp.now)

\* pthread_cond_timedwait returns: signalled by a release (wait_until is put
\* back to 0), or timed out after its second
PoolWake(t) ==
    /\ dbp.callers[t].pc = "waiting"
    /\ dbp.now >= dbp.callers[t].wait_until
    /\ PoolPass(t, dbp.callers[t].start_time)

PoolRelease(t) ==
    /\ dbp.callers[t].pc = "holding"
    /\ \E r \in {db_pool_release(dbp.pool, dbp.callers[t].conn, dbp.now)} :
          dbp' = [dbp EXCEPT
                     !.pool = r.pool,
                     !.callers = [u \in Callers |->
                         IF u = t
                         THEN [dbp.callers[u] EXCEPT
                                  !.pc = IF dbp.callers[u].rounds < PoolRounds
                                         THEN "ready" ELSE "finished",
                                  !.conn = NoConnection]
                         ELSE IF dbp.callers[u].pc = "waiting" /\ r.rc = 0
                         THEN [dbp.callers[u] EXCEPT !.wait_until = 0]
                         ELSE dbp.callers[u]]]
    /\ UNCHANGED <<feed_vars, server_vars, el_vars, hdr, rlim, stp>>

\* db_pool_close_idle called by some thread; close_idle keeps the pool as the
\* call found it and what the call returned
PoolCloseIdle ==
    /\ dbp.closes < PoolCloses
    /\ \E r \in {db_pool_close_idle(dbp.pool)} :
          dbp' = [dbp EXCEPT !.pool = r.pool, !.closes = @ + 1,
                             !.close_idle = [before |-> db_pool_get_stats(dbp.pool),
                                             in_use |-> InUse(dbp.pool), rc |-> r.rc]]
    /\ UNCHANGED <<feed_vars, server_vars, el_vars, hdr, rlim, stp>>

\* a second passes
PoolTick ==
    /\ dbp.now < PoolClock
    /\ dbp' = [dbp EXCEPT !.now = @ + 1]
    /\ UNCHANGED <<feed_vars, server_vars, el_vars, hdr, rlim, stp>>

PoolNext ==
    \/ \E t \in Callers : PoolAcquire(t) \/ PoolWake(t) \/ PoolRelease(t)
    \/ PoolCloseIdle
    \/ PoolTick

SpecPool == PoolInit /\ [][PoolNext]_vars

(***************************************************************************)
(* Claims about the connection pool.                                       *)
(***************************************************************************)
Holding(t) == dbp.callers[t].pc = "holding"

\* C31: no two threads hold the same connection at the same time, and a
\* connection a thread holds is a connection of the pool marked in use.
C31_NoSharedConnection ==
    \A t \in Callers :
        Holding(t)
        => /\ dbp.callers[t].conn \in InUse(dbp.pool)
           /\ \A u \in Callers \ {t} : Holding(u) => dbp.callers[u].conn # dbp.callers[t].conn

\* two threads hold connections while the pool has taken a connection back
C31_Witness ==
    /\ \E t, u \in Callers : t # u /\ Holding(t) /\ Holding(u)
    /\ dbp.pool.stats.total_released >= 1

\* C32: when all threads have finished, each having released what it
\* acquired once, total_acquired equals total_released and no connection is
\* active.
C32_StatsBalance ==
    (\A t \in Callers : dbp.callers[t].pc = "finished")
    => /\ db_pool_get_stats(dbp.pool).total_acquired = db_pool_get_stats(dbp.pool).total_released
       /\ db_pool_get_stats(dbp.pool).active_connections = 0

\* all threads finished, all of them after holding a connection
C32_Witness ==
    /\ \A t \in Callers : dbp.callers[t].pc = "finished"
    /\ dbp.pool.stats.total_acquired = Cardinality(Callers) * PoolRounds

\* a step that is a call of db_pool_close_idle
CloseIdleStep == dbp # <<>> /\ dbp'.closes = dbp.closes + 1

\* C33: db_pool_close_idle leaves every connection in use in the pool and in
\* use, leaves at least min(min_connections, the count before) and at most
\* the count before, and returns the number of connections it removed.
C33_CloseIdleKeepsMinimum ==
    [][CloseIdleStep
       => /\ InUse(dbp.pool) \subseteq InUse(dbp'.pool)
          /\ size(dbp'.pool) <= size(dbp.pool)
          /\ size(dbp'.pool) >= size(dbp.pool) \/ size(dbp'.pool) >= dbp.pool.config.min_connections
          /\ dbp'.close_idle.rc = size(dbp.pool) - size(dbp'.pool)]_vars

\* db_pool_close_idle has closed a connection of a pool with a minimum while
\* another was in use
C33_Witness ==
    /\ dbp # <<>> /\ dbp.close_idle # <<>>
    /\ dbp.close_idle.rc >= 1
    /\ dbp.close_idle.in_use # {}
    /\ dbp.pool.config.min_connections >= 1

\* C40: db_pool_close_idle called on a pool of at least min_connections
\* connections leaves max(min_connections, connections in use) of them.
C40_CloseIdleClosesExcess ==
    [][(CloseIdleStep /\ size(dbp.pool) >= dbp.pool.config.min_connections)
       => size(dbp'.pool) = IF dbp.pool.config.min_connections >= Cardinality(InUse(dbp.pool))
                            THEN dbp.pool.config.min_connections
                            ELSE Cardinality(InUse(dbp.pool))]_vars

(***************************************************************************)
(* A threaded server being stopped (http_server.c).  stp holds             *)
(*   running     server->running as stored in memory                       *)
(*   seen        server->running as the accept thread's next load gets it: *)
(*               the field is a plain bool written by one thread and read  *)
(*               by another, so the store reaches the reader some time     *)
(*               after it was made                                         *)
(*   listening   the listening socket is open                              *)
(*   pending     connections waiting to be accepted                        *)
(*   clients     clients that have connected so far                        *)
(*   threads     handle_connection threads created so far                  *)
(*   accept_pc   where accept_connections stands                           *)
(*   stop_pc     where http_server_stop stands                             *)
(***************************************************************************)
StopClients == 4

StopInit ==
    /\ stp = [running |-> TRUE, seen |-> TRUE, listening |-> TRUE, pending |-> 0, clients |-> 0,
              threads |-> 0, accept_pc |-> "while", stop_pc |-> "not called"]
    /\ dbp = <<>> /\ rlim = <<>> /\ hdr = <<>>
    /\ ElIdle
    /\ async_mode = FALSE /\ conns = <<>> /\ socks = <<>> /\ backlog = <<>>
    /\ loop = <<>> /\ hist = <<>> /\ last = <<>>
    /\ feed_desc = <<>> /\ feed_rest = <<>> /\ feed_parser = <<>> /\ feed_result = <<>>
    /\ fresh_parser = <<>> /\ fresh_result = <<>>

\* accept_connections: while (server->running)
StopWhile ==
    /\ stp.accept_pc = "while"
    /\ stp' = [stp EXCEPT !.accept_pc = IF stp.seen THEN "accept" ELSE "returned"]
    /\ UNCHANGED <<feed_vars, server_vars, el_vars, hdr, dbp, rlim>>

\* accept_connections: accept() on the blocking socket returns, with a
\* connection, for which a thread is created, or with an error once the socket
\* is closed
StopAccept ==
    /\ stp.accept_pc = "accept"
    /\ stp.pending > 0 \/ ~stp.listening
    /\ stp' = IF stp.listening
              THEN [stp EXCEPT !.accept_pc = "while", !.pending = @ - 1, !.threads = @ + 1]
              ELSE [stp EXCEPT !.accept_pc = "while"]
    /\ UNCHANGED <<feed_vars, server_vars, el_vars, hdr, dbp, rlim>>

\* a client connects to the listening socket
StopConnect ==
    /\ stp.listening /\ stp.clients < StopClients
    /\ stp' = [stp EXCEPT !.pending = @ + 1, !.clients = @ + 1]
    /\ UNCHANGED <<feed_vars, server_vars, el_vars, hdr, dbp, rlim>>

\* http_server_stop: server->running = false, then on to pthread_join
http_server_stop ==
    /\ stp.stop_pc = "not called" /\ stp.running
    /\ stp' = [stp EXCEPT !.running = FALSE, !.stop_pc = "pthread_join"]
    /\ UNCHANGED <<feed_vars, server_vars, el_vars, hdr, dbp, rlim>>

\* the store to server->running reaches the accept thread
StopVisible ==
    /\ stp.seen # stp.running
    /\ stp' = [stp EXCEPT !.seen = stp.running]
    /\ UNCHANGED <<feed_vars, server_vars, el_vars, hdr, dbp, rlim>>

\* http_server_stop: pthread_join returns when the accept thread has returned
StopJoin ==
    /\ stp.stop_pc = "pthread_join" /\ stp.accept_pc = "returned"
    /\ stp' = [stp EXCEPT !.stop_pc = "close"]
    /\ UNCHANGED <<feed_vars, server_vars, el_vars, hdr, dbp, rlim>>

\* http_server_stop: close(server->socket_fd) and return
StopClose ==
    /\ stp.stop_pc = "close"
    /\ stp' = [stp EXCEPT !.listening = FALSE, !.pending = 0, !.stop_pc = "returned"]
    /\ UNCHANGED <<feed_vars, server_vars, el_vars, hdr, dbp, rlim>>

StopNext ==
    \/ StopWhile \/ StopAccept \/ StopConnect
    \/ http_server_stop \/ StopVisible \/ StopJoin \/ StopClose

\* both threads run and the store becomes visible; whether a client connects
\* is up to the clients
SpecStop ==
    /\ StopInit /\ [][StopNext]_vars
    /\ WF_vars(StopWhile) /\ WF_vars(StopAccept) /\ WF_vars(StopVisible)
    /\ WF_vars(StopJoin) /\ WF_vars(StopClose)

\* C38: in threaded mode a call of http_server_stop returns in the end,
\* whether or not another client connects.
C38_StopReturns ==
    (stp # <<>> /\ stp.stop_pc = "pthread_join") ~> (stp.stop_pc = "returned")

(***************************************************************************)
(* The rate limiter (rate_limiter.c): a table of MAX_CLIENTS entries found *)
(* by hashing the client's IP and probing linearly, each with the times of *)
(* the requests it let through.  Every function runs with the limiter's    *)
(* mutex held, so a call is one step.  The allocation of the timestamps    *)
(* array is taken to succeed.                                              *)
(***************************************************************************)
MAX_CLIENTS == 3
CLEANUP_THRESHOLD == 4

\* the character codes of the IPs used
Code(ch) == CASE ch = "1" -> 49 [] ch = "2" -> 50 [] ch = "3" -> 51 [] ch = "4" -> 52

RECURSIVE djb2(_, _)
djb2(hash, ip) == IF ip = <<>> THEN hash ELSE djb2(hash * 33 + Code(Head(ip)), Tail(ip))

hash_ip(ip) == djb2(5381, ip) % MAX_CLIENTS

NoClient == [ip |-> <<>>, timestamps |-> <<>>, in_use |-> FALSE]

rate_limiter_create(max_requests, window_seconds) ==
    [max_requests |-> max_requests, window_seconds |-> window_seconds,
     clients |-> [pos \in 0..(MAX_CLIENTS - 1) |-> NoClient], check_counter |-> 0]

\* the linear probe from step i on: the position of the entry found or made,
\* -1 when the table is full
RECURSIVE probe(_, _, _)
probe(limiter, ip, i) ==
    IF i >= MAX_CLIENTS THEN [limiter |-> limiter, pos |-> -1]
    ELSE With((hash_ip(ip) + i) % MAX_CLIENTS, LAMBDA pos :
        IF limiter.clients[pos].in_use /\ limiter.clients[pos].ip = ip
        THEN [limiter |-> limiter, pos |-> pos]
        ELSE IF ~limiter.clients[pos].in_use
        THEN [limiter |-> [limiter EXCEPT !.clients[pos] =
                              [ip |-> ip, timestamps |-> <<>>, in_use |-> TRUE]],
              pos |-> pos]
        ELSE probe(limiter, ip, i + 1))

find_or_create_client(limiter, ip) == probe(limiter, ip, 0)

\* the timestamps later than the cutoff, in their order
RECURSIVE valid_timestamps(_, _)
valid_timestamps(timestamps, cutoff_time) ==
    IF timestamps = <<>> THEN <<>>
    ELSE (IF Head(timestamps) > cutoff_time THEN <<Head(timestamps)>> ELSE <<>>)
             \o valid_timestamps(Tail(timestamps), cutoff_time)

cleanup_old_timestamps(client, current_time, window_seconds) ==
    [client EXCEPT !.timestamps = valid_timestamps(@, current_time - window_seconds)]

cleanup_unlocked(limiter, current_time) ==
    [limiter EXCEPT !.clients = [pos \in 0..(MAX_CLIENTS - 1) |->
        IF ~limiter.clients[pos].in_use THEN limiter.clients[pos]
        ELSE With(cleanup_old_timestamps(limiter.clients[pos], current_time,
                                         limiter.window_seconds), LAMBDA client :
                 IF client.timestamps = <<>> THEN [client EXCEPT !.in_use = FALSE]
                 ELSE client)]]

\* a variant of rate_limiter_check's test that lets one request more through
allowed_one_more(client, limiter) == Len(client.timestamps) <= limiter.max_requests

\* rate_limiter_check: bool allowed
allowed(client, limiter) == Len(client.timestamps) < limiter.max_requests

rate_limiter_check(limiter, client_ip, current_time) ==
    With(IF limiter.check_counter + 1 >= CLEANUP_THRESHOLD
         THEN cleanup_unlocked([limiter EXCEPT !.check_counter = 0], current_time)
         ELSE [limiter EXCEPT !.check_counter = @ + 1], LAMBDA l1 :
    With(find_or_create_client(l1, client_ip), LAMBDA found :
        IF found.pos < 0 THEN [limiter |-> found.limiter, allowed |-> TRUE]
        ELSE
        With(cleanup_old_timestamps(found.limiter.clients[found.pos], current_time,
                                    l1.window_seconds), LAMBDA client :
            IF allowed(client, l1)
            THEN [limiter |-> [found.limiter EXCEPT !.clients[found.pos] =
                                  [client EXCEPT !.timestamps = Append(@, current_time)]],
                  allowed |-> TRUE]
            ELSE [limiter |-> [found.limiter EXCEPT !.clients[found.pos] = client],
                  allowed |-> FALSE])))

(***************************************************************************)
(* The limiter called for a set of clients as time passes.  rlim holds the *)
(* limiter, the clock time() reads and, for each IP, the times of the      *)
(* checks that returned true within the window that ends now.              *)
(***************************************************************************)
IPs == {<<"1">>, <<"4">>, <<"2">>, <<"3">>}
LimiterClock == 3
LimiterChecks == 5

RlInit ==
    /\ \E max_requests \in 1..2 : \E window_seconds \in 1..2 :
          rlim = [limiter |-> rate_limiter_create(max_requests, window_seconds),
                  now |-> 0, passed |-> [ip \in IPs |-> <<>>], checks |-> 0]
    /\ dbp = <<>> /\ stp = <<>> /\ hdr = <<>>
    /\ ElIdle
    /\ async_mode = FALSE /\ conns = <<>> /\ socks = <<>> /\ backlog = <<>>
    /\ loop = <<>> /\ hist = <<>> /\ last = <<>>
    /\ feed_desc = <<>> /\ feed_rest = <<>> /\ feed_parser = <<>> /\ feed_result = <<>>
    /\ fresh_parser = <<>> /\ fresh_result = <<>>

RlCheck(ip) ==
    /\ rlim.checks < LimiterChecks
    /\ \E r \in {rate_limiter_check(rlim.limiter, ip, rlim.now)} :
          rlim' = [rlim EXCEPT !.limiter = r.limiter, !.checks = @ + 1,
                               !.passed[ip] = IF r.allowed THEN Append(@, rlim.now) ELSE @]
    /\ UNCHANGED <<feed_vars, server_vars, el_vars, hdr, dbp, stp>>

\* rate_limiter_cleanup
RlCleanup ==
    /\ rlim' = [rlim EXCEPT !.limiter = cleanup_unlocked(@, rlim.now)]
    /\ UNCHANGED <<feed_vars, server_vars, el_vars, hdr, dbp, stp>>

\* a second passes
RlTick ==
    /\ rlim.now < LimiterClock
    /\ rlim' = [rlim EXCEPT
                    !.now = @ + 1,
                    !.passed = [ip \in IPs |->
                        valid_timestamps(rlim.passed[ip],
                                         rlim.now + 1 - rlim.limiter.window_seconds)]]
    /\ UNCHANGED <<feed_vars, server_vars, el_vars, hdr, dbp, stp>>

RlNext == (\E ip \in IPs : RlCheck(ip)) \/ RlCleanup \/ RlTick

SpecLimiter == RlInit /\ [][RlNext]_vars

\* C39: for every client IP, no more than max_requests of the checks that
\* returned true fall within a window of window_seconds, whatever checks and
\* cleanups are made for whatever clients.
C39_WindowLimit ==
    rlim # <<>>
    => \A ip \in IPs : Len(rlim.passed[ip]) <= rlim.limiter.max_requests

====
